---- MODULE Spec2Model ----
(***************************************************************************)
(* Model of the session lifecycle of proxmox-cli: the Session Store        *)
(* (services/session.go), the Auth Manager (services/auth.go) and the      *)
(* resource accessors (services/nodes.go, vm.go, storage.go, cluster).     *)
(*                                                                         *)
(* Strings are sequences of tokens (a token is a substring), so that the   *)
(* conversions the program applies to them (URL escaping, the UTF-8        *)
(* coercion of the JSON encoder) are computed, not assumed.  JSON texts    *)
(* are values tagged with their JSON type.                                 *)
(***************************************************************************)
EXTENDS Integers, Sequences, FiniteSets, TLC

VARIABLES file, last, inv

vars == <<file, last, inv>>

(***************************************************************************)
(* Bounds of the input domains.                                            *)
(***************************************************************************)
NumHosts == 2
NumTickets == 2

(***************************************************************************)
(* Strings.                                                                *)
(***************************************************************************)
Digits == <<"1", "2", "3", "4", "5">>

EmptyStr == << >>

\* the byte 0xFF, which is not valid UTF-8, and a host name holding it
InvalidByte == "xFF"
ReplacementChar == "uFFFD"
BadHost == <<"pve", InvalidByte>>

Host(i) == <<"pve", Digits[i]>>
TicketOf(i) == <<"PVE", ":", "root", "@", "pam", ":", Digits[i], "=">>
CSRFOf(i) == <<"csrf", ":", Digits[i]>>
UserName == <<"root", "@", "pam">>

DefaultPort == 8006

\* url.QueryEscape: unreserved characters pass, every other byte becomes %XX
QueryEscapeToken(c) ==
    CASE c = ":" -> <<"%3A">>
      [] c = "@" -> <<"%40">>
      [] c = "=" -> <<"%3D">>
      [] c = InvalidByte -> <<"%FF">>
      [] c = ReplacementChar -> <<"%EF", "%BF", "%BD">>
      [] OTHER -> <<c>>

RECURSIVE QueryEscape(_)
QueryEscape(s) ==
    IF s = << >> THEN << >>
    ELSE QueryEscapeToken(Head(s)) \o QueryEscape(Tail(s))

\* encoding/json coerces strings to valid UTF-8, on encoding and on decoding
ValidUTF8Token(c) == IF c = InvalidByte THEN ReplacementChar ELSE c

ToValidUTF8(s) == [i \in DOMAIN s |-> ValidUTF8Token(s[i])]

(***************************************************************************)
(* Session records (services/session.go, SessionData).                     *)
(***************************************************************************)
ResponseData(u, t, c) ==
    [Data |-> [Username |-> u, Ticket |-> t, CSRFPreventionToken |-> c]]

SessionData(server, port, scheme, resp) ==
    [Server |-> server, Port |-> port, HttpScheme |-> scheme, Response |-> resp]

ZeroResponse == ResponseData(EmptyStr, EmptyStr, EmptyStr)

ZeroSessionData == SessionData(EmptyStr, 0, EmptyStr, ZeroResponse)

(***************************************************************************)
(* JSON texts.  A text is not JSON at all ("invalid": arbitrary bytes, a   *)
(* truncated document; "empty": zero bytes) or a JSON value.               *)
(***************************************************************************)
JInvalid == [t |-> "invalid"]
JEmpty == [t |-> "empty"]
JNull == [t |-> "null"]
JArray == [t |-> "array"]
JStr(s) == [t |-> "string", s |-> s]
JNum(n) == [t |-> "number", n |-> n]
JObj(members) == [t |-> "object", o |-> members]

\* the members of the object {}
NoMembers == [key \in {} |-> JNull]

IsJSON(j) == j.t \notin {"invalid", "empty"}

\* the member of a JSON object a struct field is decoded from; a missing
\* member leaves the field at its zero value, exactly as null does
Member(j, key) == IF key \in DOMAIN j.o THEN j.o[key] ELSE JNull

\* json into a Go string field
DecodeString(j) ==
    CASE j.t = "null" -> [v |-> EmptyStr, ok |-> TRUE]
      [] j.t = "string" -> [v |-> ToValidUTF8(j.s), ok |-> TRUE]
      [] OTHER -> [v |-> EmptyStr, ok |-> FALSE]

\* json into a Go int field
DecodeInt(j) ==
    CASE j.t = "null" -> [v |-> 0, ok |-> TRUE]
      [] j.t = "number" -> [v |-> j.n, ok |-> TRUE]
      [] OTHER -> [v |-> 0, ok |-> FALSE]

\* json into the anonymous struct SessionDataResponse.Data
DecodeData(j) ==
    CASE j.t = "null" -> [v |-> ZeroResponse.Data, ok |-> TRUE]
      [] j.t = "object" ->
            LET u == DecodeString(Member(j, "username"))
                t == DecodeString(Member(j, "ticket"))
                c == DecodeString(Member(j, "CSRFPreventionToken"))
            IN  [v |-> [Username |-> u.v, Ticket |-> t.v,
                        CSRFPreventionToken |-> c.v],
                 ok |-> u.ok /\ t.ok /\ c.ok]
      [] OTHER -> [v |-> ZeroResponse.Data, ok |-> FALSE]

\* json into SessionDataResponse
DecodeResponse(j) ==
    CASE j.t = "null" -> [v |-> ZeroResponse, ok |-> TRUE]
      [] j.t = "object" ->
            LET into(d) == [v |-> [Data |-> d.v], ok |-> d.ok]
            IN  into(DecodeData(Member(j, "data")))
      [] OTHER -> [v |-> ZeroResponse, ok |-> FALSE]

\* json into SessionData
DecodeSessionData(j) ==
    CASE j.t = "null" -> [v |-> ZeroSessionData, ok |-> TRUE]
      [] j.t = "object" ->
            LET into(s, p, h, r) ==
                    [v |-> SessionData(s.v, p.v, h.v, r.v),
                     ok |-> s.ok /\ p.ok /\ h.ok /\ r.ok]
            IN  into(DecodeString(Member(j, "server")),
                     DecodeInt(Member(j, "port")),
                     DecodeString(Member(j, "httpScheme")),
                     DecodeResponse(Member(j, "response")))
      [] OTHER -> [v |-> ZeroSessionData, ok |-> FALSE]

\* json.Unmarshal([]byte(body), &resp) with resp a fresh SessionDataResponse
UnmarshalResponse(body) ==
    IF IsJSON(body) THEN DecodeResponse(body)
    ELSE [v |-> ZeroResponse, ok |-> FALSE]

\* the encoder with the ticket written under a key the decoder does not read
EncodeSessionData_TicketKey(sd) ==
    JObj([server |-> JStr(ToValidUTF8(sd.Server)),
          port |-> JNum(sd.Port),
          httpScheme |-> JStr(ToValidUTF8(sd.HttpScheme)),
          response |-> JObj([data |-> JObj(
              [username |-> JStr(ToValidUTF8(sd.Response.Data.Username)),
               token |-> JStr(ToValidUTF8(sd.Response.Data.Ticket)),
               CSRFPreventionToken |->
                   JStr(ToValidUTF8(sd.Response.Data.CSRFPreventionToken))])])])

\* json.NewEncoder(file).Encode(sessionData): the text written to the file
EncodeSessionData(sd) ==
    JObj([server |-> JStr(ToValidUTF8(sd.Server)),
          port |-> JNum(sd.Port),
          httpScheme |-> JStr(ToValidUTF8(sd.HttpScheme)),
          response |-> JObj([data |-> JObj(
              [username |-> JStr(ToValidUTF8(sd.Response.Data.Username)),
               ticket |-> JStr(ToValidUTF8(sd.Response.Data.Ticket)),
               CSRFPreventionToken |->
                   JStr(ToValidUTF8(sd.Response.Data.CSRFPreventionToken))])])])

(***************************************************************************)
(* The file system under ~/.proxmox: the directory is missing, the         *)
(* directory exists and the session file is missing, or the file holds a   *)
(* text.                                                                   *)
(***************************************************************************)
NoDir == [k |-> "nodir"]
NoFile == [k |-> "nofile"]
FileOf(text) == [k |-> "file", c |-> text]

\* A filesystem call can fail: "mkdir" is MkdirAll, "create" the creation of
\* the placeholder, "open" os.Open, "truncate" the os.Create of the write,
\* "write" and "shortwrite" the write of the encoded record, which stores
\* nothing or a part of the text.

\* error values are messages, given by their tokens
ErrNil == <<"nil">>
Skipped == <<"skipped">>
ErrMkdir == <<"mkdir: permission denied">>
ErrCreate == <<"open: permission denied">>
ErrOpen == <<"open: too many open files">>
ErrWrite == <<"write: no space left on device">>
ErrEOF == <<"EOF">>
ErrSyntax == <<"invalid character">>
ErrType == <<"json: cannot unmarshal">>
ErrMissingServer == <<"invalid session: missing ", "server">>
ErrMissingPort == <<"invalid session: missing or invalid ", "port">>
ErrMissingScheme == <<"invalid session: missing ", "httpScheme">>
ErrMissingUsername == <<"invalid session: missing '", "username", "' field in data">>
ErrMissingTicket == <<"invalid session: missing '", "ticket", "' field in data">>
ErrMissingCSRF ==
    <<"invalid session: missing '", "CSRFPreventionToken", "' field in data">>

\* getSessionFilepath that reports a missing file instead of creating it
getSessionFilepath_NoPlaceholder(f, fault) ==
    IF f.k = "file" THEN [file |-> f, err |-> ErrNil]
    ELSE [file |-> f, err |-> <<"stat: no such file or directory">>]

\* SessionService.getSessionFilepath
getSessionFilepath(f, fault) ==
    LET stat(afterDir) ==
            IF afterDir.err # ErrNil THEN afterDir
            ELSE IF afterDir.file.k = "nofile"
                 THEN IF fault = "create"
                      THEN [file |-> afterDir.file, err |-> ErrCreate]
                      ELSE [file |-> FileOf(JEmpty), err |-> ErrNil]
                 ELSE afterDir
    IN  stat(IF f.k = "nodir"
             THEN IF fault = "mkdir" THEN [file |-> f, err |-> ErrMkdir]
                  ELSE [file |-> NoFile, err |-> ErrNil]
             ELSE [file |-> f, err |-> ErrNil])

\* the validation chain with the port test written Port < 0
ValidateFields_PortZero(sd) ==
    CASE sd.Server = EmptyStr -> ErrMissingServer
      [] sd.Port < 0 -> ErrMissingPort
      [] sd.HttpScheme = EmptyStr -> ErrMissingScheme
      [] sd.Response.Data.Username = EmptyStr -> ErrMissingUsername
      [] sd.Response.Data.Ticket = EmptyStr -> ErrMissingTicket
      [] sd.Response.Data.CSRFPreventionToken = EmptyStr -> ErrMissingCSRF
      [] OTHER -> ErrNil

\* the validation chain with the ticket tested first
ValidateFields_TicketFirst(sd) ==
    CASE sd.Response.Data.Ticket = EmptyStr -> ErrMissingTicket
      [] sd.Server = EmptyStr -> ErrMissingServer
      [] sd.Port <= 0 -> ErrMissingPort
      [] sd.HttpScheme = EmptyStr -> ErrMissingScheme
      [] sd.Response.Data.Username = EmptyStr -> ErrMissingUsername
      [] sd.Response.Data.CSRFPreventionToken = EmptyStr -> ErrMissingCSRF
      [] OTHER -> ErrNil

\* the validation chain of ReadSessionFile
ValidateFields(sd) ==
    CASE sd.Server = EmptyStr -> ErrMissingServer
      [] sd.Port <= 0 -> ErrMissingPort
      [] sd.HttpScheme = EmptyStr -> ErrMissingScheme
      [] sd.Response.Data.Username = EmptyStr -> ErrMissingUsername
      [] sd.Response.Data.Ticket = EmptyStr -> ErrMissingTicket
      [] sd.Response.Data.CSRFPreventionToken = EmptyStr -> ErrMissingCSRF
      [] OTHER -> ErrNil

\* decoder.Decode(&sessionData) on the text of the file
DecodeFile(text) ==
    CASE text.t = "empty" -> [v |-> ZeroSessionData, err |-> ErrEOF]
      [] text.t = "invalid" -> [v |-> ZeroSessionData, err |-> ErrSyntax]
      [] OTHER ->
            LET into(d) == [v |-> d.v, err |-> IF d.ok THEN ErrNil ELSE ErrType]
            IN  into(DecodeSessionData(text))

\* SessionService.ReadSessionFile
ReadSessionFile(f, fault) ==
    LET validate(p, d) ==
            IF d.err # ErrNil
            THEN [file |-> p.file, data |-> ZeroSessionData, err |-> d.err]
            ELSE IF ValidateFields(d.v) # ErrNil
            THEN [file |-> p.file, data |-> ZeroSessionData,
                  err |-> ValidateFields(d.v)]
            ELSE [file |-> p.file, data |-> d.v, err |-> ErrNil]
        open(p) ==
            IF p.err # ErrNil
            THEN [file |-> p.file, data |-> ZeroSessionData, err |-> p.err]
            ELSE IF fault = "open"
            THEN [file |-> p.file, data |-> ZeroSessionData, err |-> ErrOpen]
            ELSE validate(p, DecodeFile(p.file.c))
    IN  open(getSessionFilepath(f, fault))

\* SessionService.WriteSessionFile
WriteSessionFile(f, sd, fault) ==
    LET create(p) ==
            IF p.err # ErrNil THEN [file |-> p.file, err |-> p.err]
            ELSE IF fault = "truncate" THEN [file |-> p.file, err |-> ErrCreate]
            ELSE IF fault = "write"
            THEN [file |-> FileOf(JEmpty), err |-> ErrWrite]
            ELSE IF fault = "shortwrite"
            THEN [file |-> FileOf(JInvalid), err |-> ErrWrite]
            ELSE [file |-> FileOf(EncodeSessionData(sd)), err |-> ErrNil]
    IN  create(getSessionFilepath(f, fault))


\* a value passed through interface{}: an int, or a string, which is given
\* by its tokens or, when it holds a document, by the text it holds
StrValue(s) == [t |-> "string", s |-> s]
TextValue(j) == [t |-> "text", j |-> j]
IntValue(n) == [t |-> "int", n |-> n]

IsString(value) == value.t \in {"string", "text"}

\* the bytes of a string value; a document is one opaque token
StringOf(value) == IF value.t = "string" THEN value.s ELSE <<"{json}">>

\* the text json.Unmarshal sees in []byte(str)
TextOf(value) ==
    CASE value.t = "text" -> value.j
      [] value.s = EmptyStr -> JEmpty
      [] OTHER -> JInvalid

ErrPanic == <<"panic: interface conversion">>

\* the switch with the server case filling a fresh record
ApplyField_FreshRecord(sd, field, value) ==
    CASE field = "server" ->
            IF IsString(value)
            THEN [sd |-> [ZeroSessionData EXCEPT !.Server = StringOf(value)], err |-> ErrNil]
            ELSE [sd |-> sd, err |-> ErrPanic]
      [] field = "port" ->
            IF value.t = "int"
            THEN [sd |-> [sd EXCEPT !.Port = value.n], err |-> ErrNil]
            ELSE [sd |-> sd, err |-> ErrPanic]
      [] field = "httpScheme" ->
            IF IsString(value)
            THEN [sd |-> [sd EXCEPT !.HttpScheme = StringOf(value)],
                  err |-> ErrNil]
            ELSE [sd |-> sd, err |-> ErrPanic]
      [] field = "response" ->
            IF IsString(value)
            THEN LET store(r) ==
                         IF r.ok
                         THEN [sd |-> [sd EXCEPT !.Response = r.v],
                               err |-> ErrNil]
                         ELSE [sd |-> sd,
                               err |-> IF IsJSON(TextOf(value)) THEN ErrType
                                       ELSE ErrSyntax]
                 IN  store(UnmarshalResponse(TextOf(value)))
            ELSE [sd |-> sd, err |-> ErrNil]
      [] OTHER -> [sd |-> sd, err |-> ErrNil]

\* the switch with a default case that clears the record
ApplyField_DefaultClears(sd, field, value) ==
    CASE field = "server" ->
            IF IsString(value)
            THEN [sd |-> [sd EXCEPT !.Server = StringOf(value)], err |-> ErrNil]
            ELSE [sd |-> sd, err |-> ErrPanic]
      [] field = "port" ->
            IF value.t = "int"
            THEN [sd |-> [sd EXCEPT !.Port = value.n], err |-> ErrNil]
            ELSE [sd |-> sd, err |-> ErrPanic]
      [] field = "httpScheme" ->
            IF IsString(value)
            THEN [sd |-> [sd EXCEPT !.HttpScheme = StringOf(value)],
                  err |-> ErrNil]
            ELSE [sd |-> sd, err |-> ErrPanic]
      [] field = "response" ->
            IF IsString(value)
            THEN LET store(r) ==
                         IF r.ok
                         THEN [sd |-> [sd EXCEPT !.Response = r.v],
                               err |-> ErrNil]
                         ELSE [sd |-> sd,
                               err |-> IF IsJSON(TextOf(value)) THEN ErrType
                                       ELSE ErrSyntax]
                 IN  store(UnmarshalResponse(TextOf(value)))
            ELSE [sd |-> sd, err |-> ErrNil]
      [] OTHER -> [sd |-> ZeroSessionData, err |-> ErrNil]

\* the switch of UpdateSessionField applied to the record that was read
ApplyField(sd, field, value) ==
    CASE field = "server" ->
            IF IsString(value)
            THEN [sd |-> [sd EXCEPT !.Server = StringOf(value)], err |-> ErrNil]
            ELSE [sd |-> sd, err |-> ErrPanic]
      [] field = "port" ->
            IF value.t = "int"
            THEN [sd |-> [sd EXCEPT !.Port = value.n], err |-> ErrNil]
            ELSE [sd |-> sd, err |-> ErrPanic]
      [] field = "httpScheme" ->
            IF IsString(value)
            THEN [sd |-> [sd EXCEPT !.HttpScheme = StringOf(value)],
                  err |-> ErrNil]
            ELSE [sd |-> sd, err |-> ErrPanic]
      [] field = "response" ->
            IF IsString(value)
            THEN LET store(r) ==
                         IF r.ok
                         THEN [sd |-> [sd EXCEPT !.Response = r.v],
                               err |-> ErrNil]
                         ELSE [sd |-> sd,
                               err |-> IF IsJSON(TextOf(value)) THEN ErrType
                                       ELSE ErrSyntax]
                 IN  store(UnmarshalResponse(TextOf(value)))
            ELSE [sd |-> sd, err |-> ErrNil]
      [] OTHER -> [sd |-> sd, err |-> ErrNil]

\* UpdateSessionField returning without writing the record it has changed
UpdateSessionField_SkipsWrite(f, field, value, rfault, wfault) ==
    LET write(r, a) == [file |-> r.file, err |-> a.err]
        update(r) ==
            IF r.err # ErrNil THEN [file |-> r.file, err |-> r.err]
            ELSE write(r, ApplyField(r.data, field, value))
    IN  update(ReadSessionFile(f, rfault))

\* UpdateSessionField going on after a failed read, with the zero record
UpdateSessionField_IgnoresReadErr(f, field, value, rfault, wfault) ==
    LET write(r, a) ==
            IF a.err # ErrNil THEN [file |-> r.file, err |-> a.err]
            ELSE WriteSessionFile(r.file, a.sd, wfault)
        update(r) == write(r, ApplyField(r.data, field, value))
    IN  update(ReadSessionFile(f, rfault))

\* SessionService.UpdateSessionField; a string value handed to the
\* "response" field is the JSON text it holds
UpdateSessionField(f, field, value, rfault, wfault) ==
    LET write(r, a) ==
            IF a.err # ErrNil THEN [file |-> r.file, err |-> a.err]
            ELSE WriteSessionFile(r.file, a.sd, wfault)
        update(r) ==
            IF r.err # ErrNil THEN [file |-> r.file, err |-> r.err]
            ELSE write(r, ApplyField(r.data, field, value))
    IN  update(ReadSessionFile(f, rfault))

(***************************************************************************)
(* What the caller of the last operation observed.                         *)
(***************************************************************************)
NoCall ==
    [op |-> "none", err |-> ErrNil, ok |-> FALSE, data |-> ZeroSessionData,
     arg |-> ZeroSessionData, result |-> JNull, body |-> JNull,
     reads |-> 0, reqs |-> << >>, writes |-> 0,
     readErr |-> Skipped, postErr |-> Skipped, updErr |-> Skipped,
     writeErr |-> Skipped, field |-> "", value |-> IntValue(0),
     sent |-> << >>, answer |-> JNull]

\* The invocations of the program that run at the same time, each in a
\* process of its own: which operation a process runs, the step it is to
\* take next, what it holds in memory (the request it has issued, the body
\* it was answered, the record it is to write), what it returned, and
\* whether a well-formed session was stored when it began.
Procs == {1, 2}

Idle ==
    [op |-> "none", pc |-> "idle", req |-> << >>, body |-> JNull,
     rec |-> ZeroSessionData, err |-> ErrNil, began |-> FALSE]

NoneRunning == [p \in Procs |-> Idle]

\* the faults that can happen on the path an operation takes from f
ReadFaultsAt(f) ==
    {"none"} \cup (IF f.k = "nodir" THEN {"mkdir"} ELSE {})
             \cup (IF f.k \in {"nodir", "nofile"} THEN {"create"} ELSE {})
             \cup (IF f.k = "file" THEN {"open"} ELSE {})

WriteFaultsAt(f) ==
    {"none", "write", "shortwrite"}
        \cup (IF f.k = "file" THEN {"truncate"} ELSE {})
        \cup (IF f.k = "nodir" THEN {"mkdir"} ELSE {})
        \cup (IF f.k \in {"nodir", "nofile"} THEN {"create"} ELSE {})

\* an operation returns at its first fault, so at most one fault shows in a
\* call: at the read, or at the write
UpdateFaultsAt(f) ==
    {<<r, "none">> : r \in ReadFaultsAt(f) \ {"none"}}
        \cup {<<"none", w>> : w \in {"truncate", "write", "shortwrite"}}

\* ValidateSession reads, then UpdateSessionField reads again and writes
ValidateFaultsAt(f) ==
    {<<r, "none", "none">> : r \in ReadFaultsAt(f) \ {"none"}}
        \cup {<<"none", "open", "none">>}
        \cup {<<"none", "none", w>> : w \in {"truncate", "write", "shortwrite"}}

(***************************************************************************)
(* Input domains.                                                          *)
(***************************************************************************)
Hosts == {Host(i) : i \in 1..NumHosts}
Ports == {-1, 0, DefaultPort}
Schemes == {EmptyStr, <<"https">>}

\* a record with every field set, as a successful login builds it
FullRecord(i) ==
    SessionData(Host(i), DefaultPort, <<"https">>,
                ResponseData(UserName, TicketOf(1), CSRFOf(1)))

\* sd with one field replaced by a value ReadSessionFile rejects, or by a
\* string that is not valid UTF-8
Deviations(sd) ==
    {[sd EXCEPT !.Server = s] : s \in {EmptyStr, BadHost}}
        \cup {[sd EXCEPT !.Port = p] : p \in Ports \ {DefaultPort}}
        \cup {[sd EXCEPT !.HttpScheme = h] : h \in Schemes \ {<<"https">>}}
        \cup {[sd EXCEPT !.Response.Data.Username = EmptyStr],
              [sd EXCEPT !.Response.Data.Ticket = EmptyStr],
              [sd EXCEPT !.Response.Data.CSRFPreventionToken = EmptyStr]}

\* the records a caller hands to WriteSessionFile: complete ones, the zero
\* value, and complete ones with one or two fields spoiled
AllRecords ==
    {FullRecord(i) : i \in 1..NumHosts} \cup {ZeroSessionData}
        \cup Deviations(FullRecord(1))
        \cup UNION {Deviations(sd) : sd \in Deviations(FullRecord(1))}

(***************************************************************************)
(* Operations of the Session Store, called directly.                       *)
(***************************************************************************)
WriteSessionFileOp(sd, fault) ==
    LET w == WriteSessionFile(file, sd, fault)
    IN  /\ file' = w.file
        /\ last' = [NoCall EXCEPT !.op = "WriteSessionFile", !.err = w.err,
                       !.arg = IF w.err = ErrNil THEN sd ELSE ZeroSessionData]
        /\ UNCHANGED inv

ReadSessionFileOp(fault) ==
    LET r == ReadSessionFile(file, fault)
    IN  /\ file' = r.file
        /\ last' = [NoCall EXCEPT !.op = "ReadSessionFile", !.err = r.err,
                       !.data = r.data, !.reads = 1]
        /\ UNCHANGED inv

UpdateFields == {"server", "port", "httpScheme", "response", "username"}

\* response bodies: texts that are not JSON, and JSON values of every shape
\* json.Unmarshal distinguishes
Payload(u, t, c) ==
    JObj([data |-> JObj([username |-> JStr(u), ticket |-> JStr(t),
                         CSRFPreventionToken |-> JStr(c)])])

TicketBodies ==
    {JInvalid, JNull, JObj([data |-> JNull]), JObj([data |-> JObj(NoMembers)]),
     JObj([data |-> JStr(UserName)])}
        \cup {Payload(UserName, TicketOf(i), CSRFOf(i)) : i \in 1..NumTickets}

UpdateValues ==
    {StrValue(s) : s \in {Host(NumHosts), EmptyStr}}
        \cup {IntValue(n) : n \in {0, 443}}
        \cup {TextValue(j) : j \in {JObj([data |-> JNull]),
                                     Payload(UserName, TicketOf(2), CSRFOf(2))}}

UpdateSessionFieldOp(field, value, rfault, wfault) ==
    LET u == UpdateSessionField(file, field, value, rfault, wfault)
    IN  /\ file' = u.file
        /\ last' = [NoCall EXCEPT !.op = "UpdateSessionField", !.err = u.err,
                       !.reads = 1, !.field = field, !.value = value]
        /\ UNCHANGED inv

InitStore ==
    /\ file \in {NoDir, NoFile}
    /\ last = NoCall
    /\ inv = NoneRunning

\* a fault ends the write whatever the record is
WritePlans(f) ==
    {<<sd, "none">> : sd \in AllRecords}
        \cup {<<FullRecord(1), w>> : w \in WriteFaultsAt(f) \ {"none"}}

\* a fault ends the update before or after the field is applied
UpdatePlans(f) ==
    {<<field, value, <<"none", "none">>>> :
        field \in UpdateFields, value \in UpdateValues}
        \cup {<<"port", IntValue(443), plan>> : plan \in UpdateFaultsAt(f)}

StoreWrite ==
    \E plan \in WritePlans(file) : WriteSessionFileOp(plan[1], plan[2])

StoreRead ==
    \E fault \in ReadFaultsAt(file) : ReadSessionFileOp(fault)

StoreUpdate ==
    \E plan \in UpdatePlans(file) :
        UpdateSessionFieldOp(plan[1], plan[2], plan[3][1], plan[3][2])

NextStore == StoreWrite \/ StoreRead \/ StoreUpdate

SpecStore == InitStore /\ [][NextStore]_vars


(***************************************************************************)
(* Transport.  A request is what HttpService hands to the HTTP client; the *)
(* outcome of a call is chosen by the network and the server.              *)
(***************************************************************************)
ErrTransport == <<"dial tcp: connection refused">>
ErrBodyRead == <<"unexpected EOF">>

\* strconv of the %d verb of fmt.Sprintf
Itoa(n) ==
    CASE n = DefaultPort -> "8006"
      [] n = 443 -> "443"
      [] n = 0 -> "0"
      [] n = -1 -> "-1"
      [] n = 100 -> "100"
      [] n = 101 -> "101"

ContentTypeForm == <<"application/x-www-form-urlencoded; charset=UTF-8">>

\* services.URLEncodedHeader
UrlEncodedHeader == {<<"Content-Type", ContentTypeForm>>}

NoHeaders == {}
NoCookies == << >>

Request(method, uri, payload, headers, cookies) ==
    [method |-> method, uri |-> uri, payload |-> payload,
     headers |-> headers, cookies |-> cookies]

\* fmt.Sprintf("%s://%s:%d/api2/json/...", scheme, server, port, ...)
BaseURI(scheme, server, port) ==
    scheme \o <<"://">> \o server \o <<":", Itoa(port)>> \o <<"/api2/json">>

AuthCookie(sd) ==
    <<[Name |-> "PVEAuthCookie", Value |-> QueryEscape(sd.Response.Data.Ticket)]>>

\* outcomes of HttpService.Post / Delete: (body, error)
TransportFailed == [err |-> ErrTransport, body |-> JEmpty]
Responded(body) == [err |-> ErrNil, body |-> body]

TicketOutcomes == {TransportFailed} \cup {Responded(b) : b \in TicketBodies}

(***************************************************************************)
(* Auth Manager (services/auth.go).                                        *)
(***************************************************************************)
\* LoginToProxmox storing the record without the scheme it was called with
LoginToProxmox_NoScheme(f, server, port, httpScheme, username, password, post, wfault) ==
    LET uri == BaseURI(httpScheme, server, port) \o <<"/access/ticket">>
        payload == <<"username=">> \o username \o <<"&password=">> \o password
                       \o <<"&realm=pam&new-format=1">>
        req == Request("POST", uri, payload, UrlEncodedHeader, NoCookies)
        written(w) == [file |-> w.file, err |-> w.err, reqs |-> <<req>>,
                       writes |-> 1, writeErr |-> w.err]
        store(resp) ==
            IF ~resp.ok
            THEN [file |-> f, reqs |-> <<req>>, writes |-> 0,
                  writeErr |-> Skipped,
                  err |-> IF IsJSON(post.body) THEN ErrType ELSE ErrSyntax]
            ELSE written(WriteSessionFile(
                     f, SessionData(server, port, EmptyStr, resp.v), wfault))
    IN  IF post.err # ErrNil
        THEN [file |-> f, err |-> post.err, reqs |-> <<req>>, writes |-> 0,
              writeErr |-> Skipped]
        ELSE store(UnmarshalResponse(post.body))

\* LoginToProxmox with the error of json.Unmarshal ignored
LoginToProxmox_IgnoresDecodeErr(f, server, port, httpScheme, username, password, post, wfault) ==
    LET uri == BaseURI(httpScheme, server, port) \o <<"/access/ticket">>
        payload == <<"username=">> \o username \o <<"&password=">> \o password
                       \o <<"&realm=pam&new-format=1">>
        req == Request("POST", uri, payload, UrlEncodedHeader, NoCookies)
        written(w) == [file |-> w.file, err |-> w.err, reqs |-> <<req>>,
                       writes |-> 1, writeErr |-> w.err]
        store(resp) ==
            written(WriteSessionFile(
                f, SessionData(server, port, httpScheme, resp.v), wfault))
    IN  IF post.err # ErrNil
        THEN [file |-> f, err |-> post.err, reqs |-> <<req>>, writes |-> 0,
              writeErr |-> Skipped]
        ELSE store(UnmarshalResponse(post.body))

\* AuthService.LoginToProxmox
LoginToProxmox(f, server, port, httpScheme, username, password, post, wfault) ==
    LET uri == BaseURI(httpScheme, server, port) \o <<"/access/ticket">>
        payload == <<"username=">> \o username \o <<"&password=">> \o password
                       \o <<"&realm=pam&new-format=1">>
        req == Request("POST", uri, payload, UrlEncodedHeader, NoCookies)
        written(w) == [file |-> w.file, err |-> w.err, reqs |-> <<req>>,
                       writes |-> 1, writeErr |-> w.err]
        store(resp) ==
            IF ~resp.ok
            THEN [file |-> f, reqs |-> <<req>>, writes |-> 0,
                  writeErr |-> Skipped,
                  err |-> IF IsJSON(post.body) THEN ErrType ELSE ErrSyntax]
            ELSE written(WriteSessionFile(
                     f, SessionData(server, port, httpScheme, resp.v), wfault))
    IN  IF post.err # ErrNil
        THEN [file |-> f, err |-> post.err, reqs |-> <<req>>, writes |-> 0,
              writeErr |-> Skipped]
        ELSE store(UnmarshalResponse(post.body))

\* ValidateSession without the anti-forgery header
ValidateSession_NoCSRF(f, rfault, post, ufault, wfault) ==
    LET session(r) ==
            LET sessionData == r.data
                uri == BaseURI(sessionData.HttpScheme, sessionData.Server,
                               sessionData.Port) \o <<"/access/ticket">>
                payload == <<"username=">> \o sessionData.Response.Data.Username
                               \o <<"&password=">>
                               \o QueryEscape(sessionData.Response.Data.Ticket)
                headers == {<<"Content-Type", ContentTypeForm>>}
                req == Request("POST", uri, payload, headers, AuthCookie(sessionData))
                refreshed(u) ==
                    [file |-> u.file, ok |-> (u.err = ErrNil), reads |-> 2,
                     reqs |-> <<req>>,
                     readErr |-> ErrNil, postErr |-> ErrNil, updErr |-> u.err]
            IN  IF r.err # ErrNil
                THEN [file |-> r.file, ok |-> FALSE, reads |-> 1, reqs |-> << >>,
                      readErr |-> r.err, postErr |-> Skipped, updErr |-> Skipped]
                ELSE IF post.err # ErrNil
                THEN [file |-> r.file, ok |-> FALSE, reads |-> 1, reqs |-> <<req>>,
                      readErr |-> ErrNil, postErr |-> post.err, updErr |-> Skipped]
                ELSE refreshed(UpdateSessionField(
                         r.file, "response", TextValue(post.body), ufault, wfault))
    IN  session(ReadSessionFile(f, rfault))

\* ValidateSession with the error of UpdateSessionField dropped
ValidateSession_DropsUpdateErr(f, rfault, post, ufault, wfault) ==
    LET session(r) ==
            LET sessionData == r.data
                uri == BaseURI(sessionData.HttpScheme, sessionData.Server,
                               sessionData.Port) \o <<"/access/ticket">>
                payload == <<"username=">> \o sessionData.Response.Data.Username
                               \o <<"&password=">>
                               \o QueryEscape(sessionData.Response.Data.Ticket)
                headers == {<<"Content-Type", ContentTypeForm>>,
                            <<"CSRFPreventionToken",
                              sessionData.Response.Data.CSRFPreventionToken>>}
                req == Request("POST", uri, payload, headers, AuthCookie(sessionData))
                refreshed(u) ==
                    [file |-> u.file, ok |-> TRUE, reads |-> 2,
                     reqs |-> <<req>>,
                     readErr |-> ErrNil, postErr |-> ErrNil, updErr |-> u.err]
            IN  IF r.err # ErrNil
                THEN [file |-> r.file, ok |-> FALSE, reads |-> 1, reqs |-> << >>,
                      readErr |-> r.err, postErr |-> Skipped, updErr |-> Skipped]
                ELSE IF post.err # ErrNil
                THEN [file |-> r.file, ok |-> FALSE, reads |-> 1, reqs |-> <<req>>,
                      readErr |-> ErrNil, postErr |-> post.err, updErr |-> Skipped]
                ELSE refreshed(UpdateSessionField(
                         r.file, "response", TextValue(post.body), ufault, wfault))
    IN  session(ReadSessionFile(f, rfault))

\* AuthService.ValidateSession
ValidateSession(f, rfault, post, ufault, wfault) ==
    LET session(r) ==
            LET sessionData == r.data
                uri == BaseURI(sessionData.HttpScheme, sessionData.Server,
                               sessionData.Port) \o <<"/access/ticket">>
                payload == <<"username=">> \o sessionData.Response.Data.Username
                               \o <<"&password=">>
                               \o QueryEscape(sessionData.Response.Data.Ticket)
                headers == {<<"Content-Type", ContentTypeForm>>,
                            <<"CSRFPreventionToken",
                              sessionData.Response.Data.CSRFPreventionToken>>}
                req == Request("POST", uri, payload, headers, AuthCookie(sessionData))
                refreshed(u) ==
                    [file |-> u.file, ok |-> (u.err = ErrNil), reads |-> 2,
                     reqs |-> <<req>>,
                     readErr |-> ErrNil, postErr |-> ErrNil, updErr |-> u.err]
            IN  IF r.err # ErrNil
                THEN [file |-> r.file, ok |-> FALSE, reads |-> 1, reqs |-> << >>,
                      readErr |-> r.err, postErr |-> Skipped, updErr |-> Skipped]
                ELSE IF post.err # ErrNil
                THEN [file |-> r.file, ok |-> FALSE, reads |-> 1, reqs |-> <<req>>,
                      readErr |-> ErrNil, postErr |-> post.err, updErr |-> Skipped]
                ELSE refreshed(UpdateSessionField(
                         r.file, "response", TextValue(post.body), ufault, wfault))
    IN  session(ReadSessionFile(f, rfault))


(***************************************************************************)
(* Resource accessors (services/nodes.go, vm.go, storage.go, cluster.go).  *)
(***************************************************************************)
\* what an accessor returns next to its error
ResNil == [t |-> "nil"]
ResList == [t |-> "list"]
ResValue == [t |-> "value"]
ResString(str) == [t |-> "string", s |-> str]

\* json.Unmarshal(bodyBytes, &result) followed by the use of result.Data,
\* for Data a slice ("list"), a struct returned by address ("value") or a
\* string ("string")
DecodeEnvelope(body, kind) ==
    LET data == IF body.t = "object" THEN Member(body, "data") ELSE JNull
        zero == CASE kind = "list" -> ResNil
                  [] kind = "value" -> ResValue
                  [] kind = "string" -> ResString(EmptyStr)
    IN  CASE ~IsJSON(body) -> [v |-> zero, ok |-> FALSE]
          [] body.t \notin {"object", "null"} -> [v |-> zero, ok |-> FALSE]
          [] data.t = "null" -> [v |-> zero, ok |-> TRUE]
          [] kind = "list" /\ data.t = "array" -> [v |-> ResList, ok |-> TRUE]
          [] kind = "value" /\ data.t = "object" -> [v |-> ResValue, ok |-> TRUE]
          [] kind = "string" /\ data.t = "string" ->
                [v |-> ResString(ToValidUTF8(data.s)), ok |-> TRUE]
          [] OTHER -> [v |-> zero, ok |-> FALSE]

DecodeErr(body) == IF IsJSON(body) THEN ErrType ELSE ErrSyntax

\* outcomes of HttpService.Get followed by io.ReadAll(resp.Body)
GetFailed == [err |-> ErrTransport, bodyErr |-> ErrNil, body |-> JEmpty]
GetBodyFailed == [err |-> ErrNil, bodyErr |-> ErrBodyRead, body |-> JEmpty]
GetResponded(body) == [err |-> ErrNil, bodyErr |-> ErrNil, body |-> body]

\* the read operations with the ticket put into the cookie unescaped
accessorGet_RawTicket(f, rfault, path, get, kind) ==
    LET session(r) ==
            LET sessionData == r.data
                uri == BaseURI(sessionData.HttpScheme, sessionData.Server,
                               sessionData.Port) \o path
                req == Request("GET", uri, EmptyStr, NoHeaders,
                               <<[Name |-> "PVEAuthCookie",
                                  Value |-> sessionData.Response.Data.Ticket]>>)
                d == DecodeEnvelope(get.body, kind)
            IN  IF r.err # ErrNil
                THEN [file |-> r.file, result |-> ResNil, err |-> r.err,
                      reads |-> 1, reqs |-> << >>]
                ELSE IF get.err # ErrNil
                THEN [file |-> r.file, result |-> ResNil, err |-> get.err,
                      reads |-> 1, reqs |-> <<req>>]
                ELSE IF get.bodyErr # ErrNil
                THEN [file |-> r.file, result |-> ResNil, err |-> get.bodyErr,
                      reads |-> 1, reqs |-> <<req>>]
                ELSE IF ~d.ok
                THEN [file |-> r.file, result |-> ResNil, err |-> DecodeErr(get.body),
                      reads |-> 1, reqs |-> <<req>>]
                ELSE [file |-> r.file, result |-> d.v, err |-> ErrNil,
                      reads |-> 1, reqs |-> <<req>>]
    IN  session(ReadSessionFile(f, rfault))

\* the read operations with the error of the session read wrapped
accessorGet_WrapsReadErr(f, rfault, path, get, kind) ==
    LET session(r) ==
            LET sessionData == r.data
                uri == BaseURI(sessionData.HttpScheme, sessionData.Server,
                               sessionData.Port) \o path
                req == Request("GET", uri, EmptyStr, NoHeaders, AuthCookie(sessionData))
                d == DecodeEnvelope(get.body, kind)
            IN  IF r.err # ErrNil
                THEN [file |-> r.file, result |-> ResNil,
                      err |-> <<"failed to read session: ">> \o r.err,
                      reads |-> 1, reqs |-> << >>]
                ELSE IF get.err # ErrNil
                THEN [file |-> r.file, result |-> ResNil, err |-> get.err,
                      reads |-> 1, reqs |-> <<req>>]
                ELSE IF get.bodyErr # ErrNil
                THEN [file |-> r.file, result |-> ResNil, err |-> get.bodyErr,
                      reads |-> 1, reqs |-> <<req>>]
                ELSE IF ~d.ok
                THEN [file |-> r.file, result |-> ResNil, err |-> DecodeErr(get.body),
                      reads |-> 1, reqs |-> <<req>>]
                ELSE [file |-> r.file, result |-> d.v, err |-> ErrNil,
                      reads |-> 1, reqs |-> <<req>>]
    IN  session(ReadSessionFile(f, rfault))

\* the read operations returning what was decoded next to the decode error
accessorGet_ReturnsDecoded(f, rfault, path, get, kind) ==
    LET session(r) ==
            LET sessionData == r.data
                uri == BaseURI(sessionData.HttpScheme, sessionData.Server,
                               sessionData.Port) \o path
                req == Request("GET", uri, EmptyStr, NoHeaders, AuthCookie(sessionData))
                d == DecodeEnvelope(get.body, kind)
            IN  IF r.err # ErrNil
                THEN [file |-> r.file, result |-> ResNil, err |-> r.err,
                      reads |-> 1, reqs |-> << >>]
                ELSE IF get.err # ErrNil
                THEN [file |-> r.file, result |-> ResNil, err |-> get.err,
                      reads |-> 1, reqs |-> <<req>>]
                ELSE IF get.bodyErr # ErrNil
                THEN [file |-> r.file, result |-> ResNil, err |-> get.bodyErr,
                      reads |-> 1, reqs |-> <<req>>]
                ELSE IF ~d.ok
                THEN [file |-> r.file, result |-> d.v, err |-> DecodeErr(get.body),
                      reads |-> 1, reqs |-> <<req>>]
                ELSE [file |-> r.file, result |-> d.v, err |-> ErrNil,
                      reads |-> 1, reqs |-> <<req>>]
    IN  session(ReadSessionFile(f, rfault))

\* the body shared by the read operations: read the session, GET, decode
accessorGet(f, rfault, path, get, kind) ==
    LET session(r) ==
            LET sessionData == r.data
                uri == BaseURI(sessionData.HttpScheme, sessionData.Server,
                               sessionData.Port) \o path
                req == Request("GET", uri, EmptyStr, NoHeaders, AuthCookie(sessionData))
                d == DecodeEnvelope(get.body, kind)
            IN  IF r.err # ErrNil
                THEN [file |-> r.file, result |-> ResNil, err |-> r.err,
                      reads |-> 1, reqs |-> << >>]
                ELSE IF get.err # ErrNil
                THEN [file |-> r.file, result |-> ResNil, err |-> get.err,
                      reads |-> 1, reqs |-> <<req>>]
                ELSE IF get.bodyErr # ErrNil
                THEN [file |-> r.file, result |-> ResNil, err |-> get.bodyErr,
                      reads |-> 1, reqs |-> <<req>>]
                ELSE IF ~d.ok
                THEN [file |-> r.file, result |-> ResNil, err |-> DecodeErr(get.body),
                      reads |-> 1, reqs |-> <<req>>]
                ELSE [file |-> r.file, result |-> d.v, err |-> ErrNil,
                      reads |-> 1, reqs |-> <<req>>]
    IN  session(ReadSessionFile(f, rfault))

\* ListNodes storing a port in the session after a successful call
ListNodes_UpdatesPort(f, rfault, get) ==
    LET after(r) ==
            IF r.err # ErrNil THEN r
            ELSE [r EXCEPT !.file = UpdateSessionField(
                                        r.file, "port", IntValue(443),
                                        "none", "none").file]
    IN  after(accessorGet(f, rfault, <<"/nodes">>, get, "list"))

ListNodes(f, rfault, get) ==
    accessorGet(f, rfault, <<"/nodes">>, get, "list")

GetNodeStatus(f, nodeName, rfault, get) ==
    accessorGet(f, rfault, <<"/nodes/">> \o nodeName \o <<"/status">>, get, "value")

GetNodeVersion(f, nodeName, rfault, get) ==
    accessorGet(f, rfault, <<"/nodes/">> \o nodeName \o <<"/version">>, get, "value")

ListVMs(f, nodeName, rfault, get) ==
    accessorGet(f, rfault, <<"/nodes/">> \o nodeName \o <<"/qemu">>, get, "list")

GetVMStatus(f, nodeName, vmid, rfault, get) ==
    accessorGet(f, rfault,
                <<"/nodes/">> \o nodeName \o <<"/qemu/", Itoa(vmid)>>
                    \o <<"/status/current">>, get, "value")

ListStorage(f, rfault, get) ==
    accessorGet(f, rfault, <<"/storage">>, get, "list")

ListStorageContent(f, nodeName, storageName, rfault, get) ==
    accessorGet(f, rfault,
                <<"/nodes/">> \o nodeName \o <<"/storage/">> \o storageName
                    \o <<"/content">>, get, "list")

ListResources(f, rfault, get) ==
    accessorGet(f, rfault, <<"/cluster/resources">>, get, "list")

GetStatus(f, rfault, get) ==
    accessorGet(f, rfault, <<"/cluster/status">>, get, "list")

\* vmStatusAction without the return on a failed session read
vmStatusAction_NoReadCheck(f, nodeName, vmid, action, rfault, post) ==
    LET session(r) ==
            LET sessionData == r.data
                uri == BaseURI(sessionData.HttpScheme, sessionData.Server,
                               sessionData.Port)
                           \o <<"/nodes/">> \o nodeName \o <<"/qemu/", Itoa(vmid)>>
                           \o <<"/status/", action>>
                headers == {<<"Content-Type", ContentTypeForm>>,
                            <<"CSRFPreventionToken",
                              sessionData.Response.Data.CSRFPreventionToken>>}
                req == Request("POST", uri, EmptyStr, headers, AuthCookie(sessionData))
                d == DecodeEnvelope(post.body, "string")
            IN  IF post.err # ErrNil
                THEN [file |-> r.file, result |-> ResString(EmptyStr), err |-> post.err,
                      reads |-> 1, reqs |-> <<req>>]
                ELSE IF ~d.ok
                THEN [file |-> r.file, result |-> ResString(EmptyStr),
                      err |-> DecodeErr(post.body), reads |-> 1, reqs |-> <<req>>]
                ELSE [file |-> r.file, result |-> d.v, err |-> ErrNil,
                      reads |-> 1, reqs |-> <<req>>]
    IN  session(ReadSessionFile(f, rfault))

\* vmStatusAction asking for the status of the task it has started
vmStatusAction_Polls(f, nodeName, vmid, action, rfault, post) ==
    LET session(r) ==
            LET sessionData == r.data
                uri == BaseURI(sessionData.HttpScheme, sessionData.Server,
                               sessionData.Port)
                           \o <<"/nodes/">> \o nodeName \o <<"/qemu/", Itoa(vmid)>>
                           \o <<"/status/", action>>
                headers == {<<"Content-Type", ContentTypeForm>>,
                            <<"CSRFPreventionToken",
                              sessionData.Response.Data.CSRFPreventionToken>>}
                req == Request("POST", uri, EmptyStr, headers, AuthCookie(sessionData))
                poll == Request("GET",
                                BaseURI(sessionData.HttpScheme, sessionData.Server,
                                        sessionData.Port)
                                    \o <<"/nodes/">> \o nodeName \o <<"/tasks/status">>,
                                EmptyStr, NoHeaders, AuthCookie(sessionData))
                d == DecodeEnvelope(post.body, "string")
            IN  IF r.err # ErrNil
                THEN [file |-> r.file, result |-> ResString(EmptyStr), err |-> r.err,
                      reads |-> 1, reqs |-> << >>]
                ELSE IF post.err # ErrNil
                THEN [file |-> r.file, result |-> ResString(EmptyStr), err |-> post.err,
                      reads |-> 1, reqs |-> <<req>>]
                ELSE IF ~d.ok
                THEN [file |-> r.file, result |-> ResString(EmptyStr),
                      err |-> DecodeErr(post.body), reads |-> 1, reqs |-> <<req>>]
                ELSE [file |-> r.file, result |-> d.v, err |-> ErrNil,
                      reads |-> 1, reqs |-> <<req, poll>>]
    IN  session(ReadSessionFile(f, rfault))

\* vmStatusAction sending the request again after a failure of the transport
vmStatusAction_Retries(f, nodeName, vmid, action, rfault, post) ==
    LET session(r) ==
            LET sessionData == r.data
                uri == BaseURI(sessionData.HttpScheme, sessionData.Server,
                               sessionData.Port)
                           \o <<"/nodes/">> \o nodeName \o <<"/qemu/", Itoa(vmid)>>
                           \o <<"/status/", action>>
                headers == {<<"Content-Type", ContentTypeForm>>,
                            <<"CSRFPreventionToken",
                              sessionData.Response.Data.CSRFPreventionToken>>}
                req == Request("POST", uri, EmptyStr, headers, AuthCookie(sessionData))
                d == DecodeEnvelope(post.body, "string")
            IN  IF r.err # ErrNil
                THEN [file |-> r.file, result |-> ResString(EmptyStr), err |-> r.err,
                      reads |-> 1, reqs |-> << >>]
                ELSE IF post.err # ErrNil
                THEN [file |-> r.file, result |-> ResString(EmptyStr), err |-> post.err,
                      reads |-> 1, reqs |-> <<req, req>>]
                ELSE IF ~d.ok
                THEN [file |-> r.file, result |-> ResString(EmptyStr),
                      err |-> DecodeErr(post.body), reads |-> 1, reqs |-> <<req>>]
                ELSE [file |-> r.file, result |-> d.v, err |-> ErrNil,
                      reads |-> 1, reqs |-> <<req>>]
    IN  session(ReadSessionFile(f, rfault))

\* VMService.vmStatusAction
vmStatusAction(f, nodeName, vmid, action, rfault, post) ==
    LET session(r) ==
            LET sessionData == r.data
                uri == BaseURI(sessionData.HttpScheme, sessionData.Server,
                               sessionData.Port)
                           \o <<"/nodes/">> \o nodeName \o <<"/qemu/", Itoa(vmid)>>
                           \o <<"/status/", action>>
                headers == {<<"Content-Type", ContentTypeForm>>,
                            <<"CSRFPreventionToken",
                              sessionData.Response.Data.CSRFPreventionToken>>}
                req == Request("POST", uri, EmptyStr, headers, AuthCookie(sessionData))
                d == DecodeEnvelope(post.body, "string")
            IN  IF r.err # ErrNil
                THEN [file |-> r.file, result |-> ResString(EmptyStr), err |-> r.err,
                      reads |-> 1, reqs |-> << >>]
                ELSE IF post.err # ErrNil
                THEN [file |-> r.file, result |-> ResString(EmptyStr), err |-> post.err,
                      reads |-> 1, reqs |-> <<req>>]
                ELSE IF ~d.ok
                THEN [file |-> r.file, result |-> ResString(EmptyStr),
                      err |-> DecodeErr(post.body), reads |-> 1, reqs |-> <<req>>]
                ELSE [file |-> r.file, result |-> d.v, err |-> ErrNil,
                      reads |-> 1, reqs |-> <<req>>]
    IN  session(ReadSessionFile(f, rfault))

StartVM(f, nodeName, vmid, rfault, post) ==
    vmStatusAction(f, nodeName, vmid, "start", rfault, post)

\* StopVM asking for a shutdown
StopVM_AsksShutdown(f, nodeName, vmid, rfault, post) ==
    vmStatusAction(f, nodeName, vmid, "shutdown", rfault, post)

StopVM(f, nodeName, vmid, rfault, post) ==
    vmStatusAction(f, nodeName, vmid, "stop", rfault, post)

ShutdownVM(f, nodeName, vmid, rfault, post) ==
    vmStatusAction(f, nodeName, vmid, "shutdown", rfault, post)

RebootVM(f, nodeName, vmid, rfault, post) ==
    vmStatusAction(f, nodeName, vmid, "reboot", rfault, post)

ResetVM(f, nodeName, vmid, rfault, post) ==
    vmStatusAction(f, nodeName, vmid, "reset", rfault, post)

SuspendVM(f, nodeName, vmid, rfault, post) ==
    vmStatusAction(f, nodeName, vmid, "suspend", rfault, post)

ResumeVM(f, nodeName, vmid, rfault, post) ==
    vmStatusAction(f, nodeName, vmid, "resume", rfault, post)

\* VMService.DeleteVM
DeleteVM(f, nodeName, vmid, rfault, del) ==
    LET session(r) ==
            LET sessionData == r.data
                uri == BaseURI(sessionData.HttpScheme, sessionData.Server,
                               sessionData.Port)
                           \o <<"/nodes/">> \o nodeName \o <<"/qemu/", Itoa(vmid)>>
                headers == {<<"CSRFPreventionToken",
                              sessionData.Response.Data.CSRFPreventionToken>>}
                req == Request("DELETE", uri, EmptyStr, headers, AuthCookie(sessionData))
                d == DecodeEnvelope(del.body, "string")
            IN  IF r.err # ErrNil
                THEN [file |-> r.file, result |-> ResString(EmptyStr), err |-> r.err,
                      reads |-> 1, reqs |-> << >>]
                ELSE IF del.err # ErrNil
                THEN [file |-> r.file, result |-> ResString(EmptyStr), err |-> del.err,
                      reads |-> 1, reqs |-> <<req>>]
                ELSE IF ~d.ok
                THEN [file |-> r.file, result |-> ResString(EmptyStr),
                      err |-> DecodeErr(del.body), reads |-> 1, reqs |-> <<req>>]
                ELSE [file |-> r.file, result |-> d.v, err |-> ErrNil,
                      reads |-> 1, reqs |-> <<req>>]
    IN  session(ReadSessionFile(f, rfault))

(***************************************************************************)
(* SDN zone commands (commands/cluster/zone.go).                           *)
(***************************************************************************)
\* the body shared by CreateZone, UpdateZone and DeleteZone: read the
\* session, POST the form with the token header and no cookie, decode
zonePost(f, rfault, payload, post) ==
    LET session(r) ==
            LET sessionData == r.data
                uri == sessionData.HttpScheme \o <<"://">> \o sessionData.Server
                           \o <<":", Itoa(sessionData.Port)>>
                           \o <<"/api2/extjs/cluster/zones">>
                headers == {<<"Content-Type", ContentTypeForm>>,
                            <<"CSRFPreventionToken",
                              sessionData.Response.Data.CSRFPreventionToken>>}
                req == Request("POST", uri, payload, headers, NoCookies)
            IN  IF r.err # ErrNil
                THEN [file |-> r.file, ok |-> FALSE, reads |-> 1, reqs |-> << >>]
                ELSE IF post.err # ErrNil
                THEN [file |-> r.file, ok |-> FALSE, reads |-> 1,
                      reqs |-> <<req>>]
                ELSE [file |-> r.file, ok |-> UnmarshalResponse(post.body).ok,
                      reads |-> 1, reqs |-> <<req>>]
    IN  session(ReadSessionFile(f, rfault))

\* cluster.CreateZone
CreateZone(f, zoneName, zoneType, rfault, post) ==
    zonePost(f, rfault,
             <<"zone=">> \o zoneName \o <<"&type=">> \o zoneType, post)

\* cluster.UpdateZone
UpdateZone(f, zoneName, newZoneType, rfault, post) ==
    zonePost(f, rfault,
             <<"name=">> \o zoneName \o <<"&type=">> \o newZoneType, post)

\* cluster.DeleteZone
DeleteZone(f, zoneName, rfault, post) ==
    zonePost(f, rfault, <<"name=">> \o zoneName, post)


(***************************************************************************)
(* The command-line program: one operation per invocation.                 *)
(***************************************************************************)
\* (server, port) as the login command passes them on: the port defaults
\* to DefaultPort, the server is whatever the user typed
LoginArgs == {<<h, DefaultPort>> : h \in Hosts} \cup {<<EmptyStr, 0>>}
LoginScheme == <<"https">>
Password == <<"secret">>
NodeName == <<"pve1">>
StorageName == <<"local">>
VMID == 100
UPID == <<"UPID", ":", "pve1", ":", "qmstart", ":", "100", ":", "user", "@", "pam", ":">>

AccessorBodies ==
    {JInvalid, JObj(NoMembers), JObj([data |-> JNull]), JObj([data |-> JArray]),
     JObj([data |-> JObj(NoMembers)]), JObj([data |-> JStr(UPID)]),
     JObj([data |-> JStr(EmptyStr)])}

GetOutcomes ==
    {GetFailed, GetBodyFailed} \cup {GetResponded(b) : b \in AccessorBodies}

PostOutcomes == {TransportFailed} \cup {Responded(b) : b \in AccessorBodies}

\* the error of the transport in an outcome of Get, Post or Delete
TransportErr(out) ==
    IF out.err # ErrNil THEN out.err
    ELSE IF "bodyErr" \in DOMAIN out THEN out.bodyErr
    ELSE ErrNil

\* what the caller and the server saw of an accessor call; the outcome of
\* the transport counts only if a request was issued
Observed(op, r, out) ==
    [NoCall EXCEPT !.op = op, !.err = r.err, !.result = r.result,
                   !.reads = r.reads, !.reqs = r.reqs,
                   !.postErr = IF r.reqs = << >> THEN Skipped
                               ELSE TransportErr(out),
                   !.body = IF r.reqs # << >> /\ TransportErr(out) = ErrNil
                            THEN out.body ELSE JNull]

\* the server's answer and the fault of the file system, for one call: a
\* fault is met only by a call that gets as far as the session file
GoodTicket(i) == Responded(Payload(UserName, TicketOf(i), CSRFOf(i)))

LoginPlans(f) ==
    {<<post, "none">> : post \in TicketOutcomes}
        \cup {<<GoodTicket(1), w>> : w \in WriteFaultsAt(f) \ {"none"}}

\* a refresh can also be answered with a ticket that no login was
\* answered with
RefreshOutcomes == TicketOutcomes \cup {GoodTicket(NumTickets + 1)}

ValidatePlans(f) ==
    {<<post, <<"none", "none", "none">>>> : post \in RefreshOutcomes}
        \cup {<<GoodTicket(NumTickets), plan>> : plan \in ValidateFaultsAt(f)}

GetPlans(f) ==
    {<<"none", get>> : get \in GetOutcomes}
        \cup {<<r, GetResponded(JObj([data |-> JNull]))>> :
                 r \in ReadFaultsAt(f) \ {"none"}}

PostPlans(f) ==
    {<<"none", post>> : post \in PostOutcomes}
        \cup {<<r, Responded(JObj([data |-> JStr(UPID)]))>> :
                 r \in ReadFaultsAt(f) \ {"none"}}

Login ==
    \E args \in LoginArgs, plan \in LoginPlans(file) :
        LET r == LoginToProxmox(file, args[1], args[2], LoginScheme, UserName,
                                Password, plan[1], plan[2])
        IN  /\ file' = r.file
            /\ last' = [NoCall EXCEPT !.op = "LoginToProxmox", !.err = r.err,
                           !.arg = SessionData(args[1], args[2], LoginScheme,
                                               ZeroResponse),
                           !.body = IF plan[1].err = ErrNil THEN plan[1].body
                                    ELSE JNull,
                           !.reqs = r.reqs, !.writes = r.writes,
                           !.postErr = plan[1].err, !.writeErr = r.writeErr]
            /\ UNCHANGED inv

Validate ==
    \E vp \in ValidatePlans(file) :
        LET post == vp[1]
            plan == vp[2]
            r == ValidateSession(file, plan[1], post, plan[2], plan[3])
        IN  /\ file' = r.file
            /\ last' = [NoCall EXCEPT !.op = "ValidateSession", !.ok = r.ok,
                           !.body = IF r.postErr = ErrNil THEN post.body
                                    ELSE JNull,
                           !.reads = r.reads, !.reqs = r.reqs,
                           !.readErr = r.readErr, !.postErr = r.postErr,
                           !.updErr = r.updErr]
            /\ UNCHANGED inv

CallListNodes ==
    \E plan \in GetPlans(file) :
        LET r == ListNodes(file, plan[1], plan[2])
        IN  /\ file' = r.file
            /\ last' = Observed("ListNodes", r, plan[2])
            /\ UNCHANGED inv

CallGetNodeStatus ==
    \E plan \in GetPlans(file) :
        LET r == GetNodeStatus(file, NodeName, plan[1], plan[2])
        IN  /\ file' = r.file
            /\ last' = Observed("GetNodeStatus", r, plan[2])
            /\ UNCHANGED inv

CallGetNodeVersion ==
    \E plan \in GetPlans(file) :
        LET r == GetNodeVersion(file, NodeName, plan[1], plan[2])
        IN  /\ file' = r.file
            /\ last' = Observed("GetNodeVersion", r, plan[2])
            /\ UNCHANGED inv

CallListVMs ==
    \E plan \in GetPlans(file) :
        LET r == ListVMs(file, NodeName, plan[1], plan[2])
        IN  /\ file' = r.file
            /\ last' = Observed("ListVMs", r, plan[2])
            /\ UNCHANGED inv

CallGetVMStatus ==
    \E plan \in GetPlans(file) :
        LET r == GetVMStatus(file, NodeName, VMID, plan[1], plan[2])
        IN  /\ file' = r.file
            /\ last' = Observed("GetVMStatus", r, plan[2])
            /\ UNCHANGED inv

CallListStorage ==
    \E plan \in GetPlans(file) :
        LET r == ListStorage(file, plan[1], plan[2])
        IN  /\ file' = r.file
            /\ last' = Observed("ListStorage", r, plan[2])
            /\ UNCHANGED inv

CallListStorageContent ==
    \E plan \in GetPlans(file) :
        LET r == ListStorageContent(file, NodeName, StorageName, plan[1], plan[2])
        IN  /\ file' = r.file
            /\ last' = Observed("ListStorageContent", r, plan[2])
            /\ UNCHANGED inv

CallListResources ==
    \E plan \in GetPlans(file) :
        LET r == ListResources(file, plan[1], plan[2])
        IN  /\ file' = r.file
            /\ last' = Observed("ListResources", r, plan[2])
            /\ UNCHANGED inv

CallGetStatus ==
    \E plan \in GetPlans(file) :
        LET r == GetStatus(file, plan[1], plan[2])
        IN  /\ file' = r.file
            /\ last' = Observed("GetStatus", r, plan[2])
            /\ UNCHANGED inv

CallStartVM ==
    \E plan \in PostPlans(file) :
        LET r == StartVM(file, NodeName, VMID, plan[1], plan[2])
        IN  /\ file' = r.file
            /\ last' = Observed("StartVM", r, plan[2])
            /\ UNCHANGED inv

CallStopVM ==
    \E plan \in PostPlans(file) :
        LET r == StopVM(file, NodeName, VMID, plan[1], plan[2])
        IN  /\ file' = r.file
            /\ last' = Observed("StopVM", r, plan[2])
            /\ UNCHANGED inv

CallShutdownVM ==
    \E plan \in PostPlans(file) :
        LET r == ShutdownVM(file, NodeName, VMID, plan[1], plan[2])
        IN  /\ file' = r.file
            /\ last' = Observed("ShutdownVM", r, plan[2])
            /\ UNCHANGED inv

CallRebootVM ==
    \E plan \in PostPlans(file) :
        LET r == RebootVM(file, NodeName, VMID, plan[1], plan[2])
        IN  /\ file' = r.file
            /\ last' = Observed("RebootVM", r, plan[2])
            /\ UNCHANGED inv

CallResetVM ==
    \E plan \in PostPlans(file) :
        LET r == ResetVM(file, NodeName, VMID, plan[1], plan[2])
        IN  /\ file' = r.file
            /\ last' = Observed("ResetVM", r, plan[2])
            /\ UNCHANGED inv

CallSuspendVM ==
    \E plan \in PostPlans(file) :
        LET r == SuspendVM(file, NodeName, VMID, plan[1], plan[2])
        IN  /\ file' = r.file
            /\ last' = Observed("SuspendVM", r, plan[2])
            /\ UNCHANGED inv

CallResumeVM ==
    \E plan \in PostPlans(file) :
        LET r == ResumeVM(file, NodeName, VMID, plan[1], plan[2])
        IN  /\ file' = r.file
            /\ last' = Observed("ResumeVM", r, plan[2])
            /\ UNCHANGED inv

CallDeleteVM ==
    \E plan \in PostPlans(file) :
        LET r == DeleteVM(file, NodeName, VMID, plan[1], plan[2])
        IN  /\ file' = r.file
            /\ last' = Observed("DeleteVM", r, plan[2])
            /\ UNCHANGED inv

ZoneName == <<"zone1">>
ZoneType == <<"vlan">>

ObservedZone(op, r) ==
    [NoCall EXCEPT !.op = op, !.ok = r.ok, !.reads = r.reads, !.reqs = r.reqs]

CallCreateZone ==
    \E plan \in PostPlans(file) :
        LET r == CreateZone(file, ZoneName, ZoneType, plan[1], plan[2])
        IN  /\ file' = r.file
            /\ last' = ObservedZone("CreateZone", r)
            /\ UNCHANGED inv

CallUpdateZone ==
    \E plan \in PostPlans(file) :
        LET r == UpdateZone(file, ZoneName, ZoneType, plan[1], plan[2])
        IN  /\ file' = r.file
            /\ last' = ObservedZone("UpdateZone", r)
            /\ UNCHANGED inv

CallDeleteZone ==
    \E plan \in PostPlans(file) :
        LET r == DeleteZone(file, ZoneName, plan[1], plan[2])
        IN  /\ file' = r.file
            /\ last' = ObservedZone("DeleteZone", r)
            /\ UNCHANGED inv

Init ==
    /\ file \in {NoDir, NoFile}
    /\ last = NoCall
    /\ inv = NoneRunning

Next ==
    \/ Login
    \/ Validate
    \/ CallListNodes
    \/ CallGetNodeStatus
    \/ CallGetNodeVersion
    \/ CallListVMs
    \/ CallGetVMStatus
    \/ CallListStorage
    \/ CallListStorageContent
    \/ CallListResources
    \/ CallGetStatus
    \/ CallStartVM
    \/ CallStopVM
    \/ CallShutdownVM
    \/ CallRebootVM
    \/ CallResetVM
    \/ CallSuspendVM
    \/ CallResumeVM
    \/ CallDeleteVM
    \/ CallCreateZone
    \/ CallUpdateZone
    \/ CallDeleteZone

Spec == Init /\ [][Next]_vars


(***************************************************************************)
(* Attempts to repair a session: login, refresh, and a field update called *)
(* on a session that is not well formed.                                   *)
(***************************************************************************)
\* no well-formed record is stored: ReadSessionFile would return an error
Broken(f) == ReadSessionFile(f, "none").err # ErrNil

RepairUpdate == Broken(file) /\ StoreUpdate

NextSession == Login \/ Validate \/ RepairUpdate

SpecSession == Init /\ [][NextSession]_vars


(***************************************************************************)
(* The transport itself (HttpService): what it makes of a call.  A header  *)
(* map is given as a set of (name, value) pairs and, for one call, as the  *)
(* sequence in which the range loop of createRequest meets its entries;    *)
(* a Go map has no order, so every sequence can occur.                     *)
(***************************************************************************)
ErrURL == <<"parse: missing protocol scheme">>

\* textproto.CanonicalMIMEHeaderKey, which http.Header.Set applies to the
\* name: two names that differ by case only are one header
CanonicalKey(name) ==
    CASE name = "CSRFPreventionToken" -> "Csrfpreventiontoken"
      [] name = "content-type" -> "Content-Type"
      [] OTHER -> name

\* the bytes http.Request.AddCookie lets into a cookie value: it drops
\* the semicolon, the double quote, the backslash and control bytes
ValidCookieValueByte(c) == c \notin {";", "quote", "backslash", InvalidByte}

\* createRequest without the loop over the cookies
createRequest_NoCookies(method, url, payload, order, cookies) ==
    IF Len(url) = 0 \/ url[1] = "://"
    THEN [req |-> << >>, err |-> ErrURL]
    ELSE [req |-> <<[method |-> method, url |-> url, body |-> payload,
                     header |->
                         {<<CanonicalKey(order[i][1]), order[i][2]>> :
                             i \in {k \in DOMAIN order :
                                       \A j \in (k + 1)..Len(order) :
                                           CanonicalKey(order[j][1])
                                               # CanonicalKey(order[k][1])}},
                     cookie |-> << >>]>>,
          err |-> ErrNil]

\* HttpService.createRequest: http.NewRequest, Header.Set for each entry
\* of the map in the order met, AddCookie for each cookie of the list
createRequest(method, url, payload, order, cookies) ==
    IF Len(url) = 0 \/ url[1] = "://"
    THEN [req |-> << >>, err |-> ErrURL]
    ELSE [req |-> <<[method |-> method, url |-> url, body |-> payload,
                     header |->
                         {<<CanonicalKey(order[i][1]), order[i][2]>> :
                             i \in {k \in DOMAIN order :
                                       \A j \in (k + 1)..Len(order) :
                                           CanonicalKey(order[j][1])
                                               # CanonicalKey(order[k][1])}},
                     cookie |->
                         [i \in DOMAIN cookies |->
                             [Name |-> cookies[i].Name,
                              Value |-> SelectSeq(cookies[i].Value,
                                                  ValidCookieValueByte)]]]>>,
          err |-> ErrNil]

\* the part Post, Put and Delete share after createRequest: HTTPClient.Do,
\* io.ReadAll of the body, string(bodyBytes)
roundTrip(created, out) ==
    IF created.err # ErrNil
    THEN [sent |-> << >>, body |-> JEmpty, err |-> created.err]
    ELSE IF out.err # ErrNil
    THEN [sent |-> created.req, body |-> JEmpty, err |-> out.err]
    ELSE IF out.bodyErr # ErrNil
    THEN [sent |-> created.req, body |-> JEmpty, err |-> out.bodyErr]
    ELSE [sent |-> created.req, body |-> out.body, err |-> ErrNil]

\* HttpService.Get returns the response, its body unread
Get(url, order, cookies, out) ==
    LET done(created) ==
            IF created.err # ErrNil
            THEN [sent |-> << >>, body |-> JEmpty, err |-> created.err]
            ELSE IF out.err # ErrNil
            THEN [sent |-> created.req, body |-> JEmpty, err |-> out.err]
            ELSE [sent |-> created.req, body |-> JEmpty, err |-> ErrNil]
    IN  done(createRequest("GET", url, EmptyStr, order, cookies))

\* HttpService.Post
Post(url, payload, order, cookies, out) ==
    roundTrip(createRequest("POST", url, payload, order, cookies), out)

\* HttpService.Put
Put(url, payload, order, cookies, out) ==
    roundTrip(createRequest("PUT", url, payload, order, cookies), out)

\* HttpService.Delete
Delete(url, order, cookies, out) ==
    roundTrip(createRequest("DELETE", url, EmptyStr, order, cookies), out)

\* the calls: the header maps and cookie lists of the callers, a map with
\* two names that differ by case only, a cookie value holding a semicolon;
\* and, for one of them, each payload, URL (one that http.NewRequest
\* rejects) and outcome of the exchange
TransportCalls ==
    LET uri == BaseURI(LoginScheme, Host(1), DefaultPort) \o <<"/access/ticket">>
        form == <<"username=">> \o UserName
        token == <<"CSRFPreventionToken", CSRFOf(1)>>
        maps == {NoHeaders, UrlEncodedHeader, {token},
                 UrlEncodedHeader \cup {token},
                 UrlEncodedHeader
                     \cup {<<"content-type", <<"application/json">>>>}}
        orders(h) == {o \in [1..Cardinality(h) -> h] :
                         \A i, j \in DOMAIN o : o[i] = o[j] => i = j}
        lists == {NoCookies,
                  <<[Name |-> "PVEAuthCookie",
                     Value |-> QueryEscape(TicketOf(1))]>>,
                  <<[Name |-> "PVEAuthCookie", Value |-> TicketOf(1)],
                    [Name |-> "lang", Value |-> <<"en", ";", "q=1">>]>>}
        answered == GetResponded(JObj([data |-> JStr(UPID)]))
    IN  UNION {{[url |-> uri, payload |-> form, headers |-> h, order |-> o,
                 cookies |-> c, out |-> answered] :
                   o \in orders(h), c \in lists} : h \in maps}
        \cup {[url |-> u, payload |-> b, headers |-> {token},
               order |-> <<token>>, cookies |-> NoCookies, out |-> out] :
                 u \in {uri, <<"://", "pve1">>}, b \in {EmptyStr, form},
                 out \in {GetFailed, GetBodyFailed, answered,
                          GetResponded(JInvalid), GetResponded(JEmpty)}}

\* what the caller handed to the transport, what was sent and what came
\* back
Exchanged(op, method, call, r) ==
    [NoCall EXCEPT !.op = op, !.err = r.err, !.body = r.body, !.sent = r.sent,
                   !.reqs = <<Request(method, call.url, call.payload,
                                      call.headers, call.cookies)>>,
                   !.answer = IF TransportErr(call.out) = ErrNil
                              THEN call.out.body ELSE JNull]

CallGet ==
    \E call \in TransportCalls :
        /\ last' = Exchanged("Get", "GET", [call EXCEPT !.payload = EmptyStr],
                             Get(call.url, call.order, call.cookies, call.out))
        /\ UNCHANGED <<file, inv>>

CallPost ==
    \E call \in TransportCalls :
        /\ last' = Exchanged("Post", "POST", call,
                             Post(call.url, call.payload, call.order,
                                  call.cookies, call.out))
        /\ UNCHANGED <<file, inv>>

CallPut ==
    \E call \in TransportCalls :
        /\ last' = Exchanged("Put", "PUT", call,
                             Put(call.url, call.payload, call.order,
                                 call.cookies, call.out))
        /\ UNCHANGED <<file, inv>>

CallDelete ==
    \E call \in TransportCalls :
        /\ last' = Exchanged("Delete", "DELETE",
                             [call EXCEPT !.payload = EmptyStr],
                             Delete(call.url, call.order, call.cookies,
                                    call.out))
        /\ UNCHANGED <<file, inv>>

NextTransport == CallGet \/ CallPost \/ CallPut \/ CallDelete

SpecTransport == Init /\ [][NextTransport]_vars


(***************************************************************************)
(* Invocations that run at the same time.  Each is a process of its own    *)
(* and shares only the session file with the others; its steps are the     *)
(* calls it makes on the file system: the read of the file (open and       *)
(* decode), os.Create, which truncates the file, and the Encode that       *)
(* writes the record.  A request to the server touches nothing shared and  *)
(* is part of the step before it.  In this specification the file system   *)
(* and the server do not fail.  (Each process writes through its own file  *)
(* descriptor at offset 0; bytes that a longer record leaves behind a      *)
(* shorter one are not read by Decode and are not modelled.)               *)
(***************************************************************************)
\* the process returns: err is nil, or the error it returns (false, for
\* ValidateSession)
Returned(p, op, err, began) ==
    [inv EXCEPT ![p] = [Idle EXCEPT !.op = op, !.err = err, !.began = began]]

\* LoginToProxmox up to the call of WriteSessionFile: the POST and the
\* decoding of the answer
LoginPost(p) ==
    \E server \in Hosts, i \in 1..NumTickets :
        LET uri == BaseURI(LoginScheme, server, DefaultPort)
                       \o <<"/access/ticket">>
            payload == <<"username=">> \o UserName \o <<"&password=">>
                           \o Password \o <<"&realm=pam&new-format=1">>
            req == Request("POST", uri, payload, UrlEncodedHeader, NoCookies)
            resp == UnmarshalResponse(GoodTicket(i).body)
        IN  /\ inv[p].pc = "idle"
            /\ inv' = IF ~resp.ok
                      THEN Returned(p, "LoginToProxmox", ErrType, ~Broken(file))
                      ELSE [inv EXCEPT ![p] =
                               [Idle EXCEPT !.op = "LoginToProxmox",
                                   !.pc = "create", !.req = <<req>>,
                                   !.rec = SessionData(server, DefaultPort,
                                                       LoginScheme, resp.v),
                                   !.began = ~Broken(file)]]
            /\ UNCHANGED <<file, last>>

\* ValidateSession up to the call of UpdateSessionField: the read of the
\* session and the POST to the server that was read
ValidateRead(p) ==
    LET step(r) ==
            LET sessionData == r.data
                uri == BaseURI(sessionData.HttpScheme, sessionData.Server,
                               sessionData.Port) \o <<"/access/ticket">>
                payload == <<"username=">> \o sessionData.Response.Data.Username
                               \o <<"&password=">>
                               \o QueryEscape(sessionData.Response.Data.Ticket)
                headers == {<<"Content-Type", ContentTypeForm>>,
                            <<"CSRFPreventionToken",
                              sessionData.Response.Data.CSRFPreventionToken>>}
                req == Request("POST", uri, payload, headers, AuthCookie(sessionData))
            IN  /\ file' = r.file
                /\ inv' = IF r.err # ErrNil
                          THEN Returned(p, "ValidateSession", r.err, ~Broken(file))
                          ELSE [inv EXCEPT ![p] =
                                   [Idle EXCEPT !.op = "ValidateSession",
                                       !.pc = "update", !.req = <<req>>,
                                       !.body = GoodTicket(NumTickets + 1).body,
                                       !.began = ~Broken(file)]]
    IN  /\ inv[p].pc = "idle"
        /\ step(ReadSessionFile(file, "none"))
        /\ UNCHANGED last

\* UpdateSessionField up to the call of WriteSessionFile: the read of the
\* session and the switch
updateRead(p, op, req, field, value, began) ==
    LET apply(r, a) ==
            IF a.err # ErrNil THEN Returned(p, op, a.err, began)
            ELSE [inv EXCEPT ![p] =
                     [Idle EXCEPT !.op = op, !.pc = "create", !.req = req,
                                  !.rec = a.sd, !.began = began]]
        step(r) ==
            /\ file' = r.file
            /\ inv' = IF r.err # ErrNil THEN Returned(p, op, r.err, began)
                      ELSE apply(r, ApplyField(r.data, field, value))
    IN  step(ReadSessionFile(file, "none"))

\* the UpdateSessionField("response", body) of a ValidateSession
ValidateUpdate(p) ==
    /\ inv[p].pc = "update"
    /\ updateRead(p, "ValidateSession", inv[p].req, "response",
                  TextValue(inv[p].body), inv[p].began)
    /\ UNCHANGED last

\* an UpdateSessionField called directly
DirectUpdate(p) ==
    /\ inv[p].pc = "idle"
    /\ updateRead(p, "UpdateSessionField", << >>, "server",
                  StrValue(Host(NumHosts)), ~Broken(file))
    /\ UNCHANGED last

\* WriteSessionFile, first part: getSessionFilepath and os.Create
Create(p) ==
    /\ inv[p].pc = "create"
    /\ file' = FileOf(JEmpty)
    /\ inv' = [inv EXCEPT ![p].pc = "encode"]
    /\ UNCHANGED last

\* WriteSessionFile, second part: Encode; the operation returns nil (true)
Encode(p) ==
    /\ inv[p].pc = "encode"
    /\ file' = FileOf(EncodeSessionData(inv[p].rec))
    /\ inv' = [inv EXCEPT ![p].pc = "idle", ![p].err = ErrNil]
    /\ UNCHANGED last

\* invocations of login and ValidateSession only
NextAuthRace ==
    \E p \in Procs :
        \/ LoginPost(p)
        \/ ValidateRead(p)
        \/ ValidateUpdate(p)
        \/ Create(p)
        \/ Encode(p)

SpecAuthRace == Init /\ [][NextAuthRace]_vars

\* invocations of every operation that writes the session
NextRace ==
    \E p \in Procs :
        \/ LoginPost(p)
        \/ ValidateRead(p)
        \/ ValidateUpdate(p)
        \/ DirectUpdate(p)
        \/ Create(p)
        \/ Encode(p)

SpecRace == Init /\ [][NextRace]_vars


(***************************************************************************)
(* What is stored, read off the text of the file.                          *)
(***************************************************************************)
RequiredFields ==
    {"server", "port", "httpScheme", "username", "ticket", "CSRFPreventionToken"}

\* the file holds a JSON object (the program writes none but whole records)
HoldsRecord(f) == f.k = "file" /\ f.c.t = "object"

Stored(f) ==
    LET data == f.c.o.response.o.data.o
    IN  [server |-> f.c.o.server.s, port |-> f.c.o.port.n,
         httpScheme |-> f.c.o.httpScheme.s, username |-> data.username.s,
         ticket |-> data.ticket.s, CSRFPreventionToken |-> data.CSRFPreventionToken.s]

MissingFields(f) ==
    {k \in RequiredFields :
        IF k = "port" THEN Stored(f).port <= 0 ELSE Stored(f)[k] = EmptyStr}

\* the content of the session file, or that there is no session file
Content(f) == IF f.k = "file" THEN f.c ELSE [t |-> "absent"]

\* state Active: a stored record with all six fields
Active(f) == HoldsRecord(f) /\ MissingFields(f) = {}

\* the six fields of a record in memory
FieldsOf(sd) ==
    [server |-> sd.Server, port |-> sd.Port, httpScheme |-> sd.HttpScheme,
     username |-> sd.Response.Data.Username, ticket |-> sd.Response.Data.Ticket,
     CSRFPreventionToken |-> sd.Response.Data.CSRFPreventionToken]

Complete(sd) ==
    /\ sd.Server # EmptyStr /\ sd.Port > 0 /\ sd.HttpScheme # EmptyStr
    /\ sd.Response.Data.Username # EmptyStr
    /\ sd.Response.Data.Ticket # EmptyStr
    /\ sd.Response.Data.CSRFPreventionToken # EmptyStr

IsValidUTF8(str) == \A i \in DOMAIN str : str[i] # InvalidByte

AllValidUTF8(sd) ==
    /\ IsValidUTF8(sd.Server) /\ IsValidUTF8(sd.HttpScheme)
    /\ IsValidUTF8(sd.Response.Data.Username)
    /\ IsValidUTF8(sd.Response.Data.Ticket)
    /\ IsValidUTF8(sd.Response.Data.CSRFPreventionToken)

StoreOps == {"WriteSessionFile", "ReadSessionFile", "UpdateSessionField"}

(***************************************************************************)
(* Claims about the Session Store, checked under SpecStore.                *)
(***************************************************************************)

\* C6: each of WriteSessionFile, ReadSessionFile and UpdateSessionField
\* either succeeds or leaves the stored state as it was: a call that returns
\* an error has not changed the file (nothing truncated, partial or newly
\* created).
C6_FailureLeavesFileUntouched ==
    [][(last'.op \in StoreOps /\ last'.err # ErrNil)
       => Content(file') = Content(file)]_vars

\* C7 as stated: for every record with six non-empty fields and port > 0, a
\* successful WriteSessionFile(r) followed immediately by a ReadSessionFile
\* (that can open the file) returns no error and a record equal to r.
C7_RoundTripEveryRecord ==
    [][(/\ last.op = "WriteSessionFile" /\ last.err = ErrNil
        /\ Complete(last.arg)
        /\ last'.op = "ReadSessionFile" /\ last'.err # ErrOpen)
       => (last'.err = ErrNil /\ FieldsOf(last'.data) = FieldsOf(last.arg))]_vars

\* C7 amended: the round trip holds for every well-formed record whose
\* strings are valid UTF-8.
C7_RoundTripValidUTF8 ==
    [][(/\ last.op = "WriteSessionFile" /\ last.err = ErrNil
        /\ Complete(last.arg) /\ AllValidUTF8(last.arg)
        /\ last'.op = "ReadSessionFile" /\ last'.err # ErrOpen)
       => (last'.err = ErrNil /\ FieldsOf(last'.data) = FieldsOf(last.arg))]_vars

\* a read has returned the well-formed record that is stored
C7_Witness ==
    /\ last.op = "ReadSessionFile" /\ last.err = ErrNil
    /\ Active(file) /\ FieldsOf(last.data) = Stored(file)
    /\ last.data.Server = Host(2)

\* the message ReadSessionFile is to give for each missing field
MissingMessage ==
    [k \in RequiredFields |->
        CASE k = "server" -> ErrMissingServer
          [] k = "port" -> ErrMissingPort
          [] k = "httpScheme" -> ErrMissingScheme
          [] k = "username" -> ErrMissingUsername
          [] k = "ticket" -> ErrMissingTicket
          [] k = "CSRFPreventionToken" -> ErrMissingCSRF]

Names(msg, k) == \E i \in DOMAIN msg : msg[i] = k

\* C8: a ReadSessionFile of a stored record (whose file can be opened)
\* succeeds exactly if none of the six fields is missing (port 0 and
\* negative ports count as missing); when exactly one field is missing the
\* error names that field and no other, and differs from the error of each
\* other field.  A file that holds no record is never read with success.
C8_ValidationCompleteness ==
    last.op = "ReadSessionFile" =>
        /\ ~HoldsRecord(file) => last.err # ErrNil
        /\ (HoldsRecord(file) /\ last.err # ErrOpen) =>
              /\ last.err = ErrNil <=> MissingFields(file) = {}
              /\ \A k \in RequiredFields :
                    MissingFields(file) = {k} =>
                        /\ last.err = MissingMessage[k]
                        /\ Names(last.err, k)
                        /\ \A j \in RequiredFields \ {k} :
                              /\ ~Names(last.err, j)
                              /\ last.err # MissingMessage[j]

\* a read has rejected a stored record whose only defect is port 0
C8_Witness ==
    /\ last.op = "ReadSessionFile" /\ HoldsRecord(file)
    /\ MissingFields(file) = {"port"} /\ Stored(file).port = 0
    /\ last.err = ErrMissingPort


(***************************************************************************)
(* Claims about the Auth Manager and the accessors, checked under Spec.    *)
(***************************************************************************)
ReadOps ==
    {"ListNodes", "GetNodeStatus", "GetNodeVersion", "ListVMs", "GetVMStatus",
     "ListStorage", "ListStorageContent", "ListResources", "GetStatus"}

VMActionOps ==
    {"StartVM", "StopVM", "ShutdownVM", "RebootVM", "ResetVM", "SuspendVM",
     "ResumeVM"}

AccessorOps == ReadOps \cup VMActionOps \cup {"DeleteVM"}

\* C1: a ValidateSession that starts from a well-formed stored session and
\* returns true leaves a well-formed stored session: a ReadSessionFile right
\* after it succeeds, with username, ticket and anti-forgery token non-empty,
\* whatever body the server answered.
C1_ValidateKeepsActive ==
    [][(Active(file) /\ last'.op = "ValidateSession" /\ last'.ok)
       => LET r == ReadSessionFile(file', "none")
          IN  /\ r.err = ErrNil
              /\ r.data.Response.Data.Username # EmptyStr
              /\ r.data.Response.Data.Ticket # EmptyStr
              /\ r.data.Response.Data.CSRFPreventionToken # EmptyStr]_vars

\* C2: after a LoginToProxmox that returned no error the session is Active:
\* a ReadSessionFile right after it succeeds, whatever body the server
\* answered.
C2_LoginMakesActive ==
    (last.op = "LoginToProxmox" /\ last.err = ErrNil)
        => (Active(file) /\ ReadSessionFile(file, "none").err = ErrNil)

\* C3: fail-closed.  When no well-formed session is stored (no file, or a
\* record that is not well-formed), ValidateSession returns false, every
\* accessor operation returns an error, and none of them calls the transport.
C3_FailClosed ==
    [][(~Active(file) /\ last'.op \in AccessorOps \cup {"ValidateSession"})
       => /\ last'.reqs = << >>
          /\ last'.op = "ValidateSession" => ~last'.ok
          /\ last'.op \in AccessorOps => last'.err # ErrNil]_vars

\* a VM action was refused on a stored record that lacks a field
C3_Witness ==
    /\ last.op = "StartVM" /\ last.err # ErrNil /\ last.reqs = << >>
    /\ HoldsRecord(file) /\ ~Active(file)

\* C4: every request ValidateSession issues carries the ticket of the stored
\* record (URL-escaped, as the PVEAuthCookie cookie and as the form password)
\* together with the anti-forgery token of that same record (as the
\* CSRFPreventionToken header), never one without the other.
C4_RenewalCoupling ==
    [][last'.op = "ValidateSession"
       => \A i \in DOMAIN last'.reqs :
            LET q == last'.reqs[i]
            IN  /\ Active(file)
                /\ \E c \in DOMAIN q.cookies :
                      /\ q.cookies[c].Name = "PVEAuthCookie"
                      /\ q.cookies[c].Value = QueryEscape(Stored(file).ticket)
                /\ \A c \in DOMAIN q.cookies :
                      q.cookies[c].Name = "PVEAuthCookie" =>
                          q.cookies[c].Value = QueryEscape(Stored(file).ticket)
                /\ <<"CSRFPreventionToken", Stored(file).CSRFPreventionToken>>
                       \in q.headers
                /\ \A h \in q.headers :
                      h[1] = "CSRFPreventionToken" =>
                          h[2] = Stored(file).CSRFPreventionToken
                /\ q.payload = <<"username=">> \o Stored(file).username
                                   \o <<"&password=">>
                                   \o QueryEscape(Stored(file).ticket)]_vars

\* ValidateSession has sent a request whose cookie is an escaped ticket
C4_Witness ==
    /\ last.op = "ValidateSession" /\ Len(last.reqs) = 1
    /\ last.reqs[1].cookies[1].Value = QueryEscape(TicketOf(2))
    /\ QueryEscape(TicketOf(2)) # TicketOf(2)
    /\ <<"CSRFPreventionToken", CSRFOf(2)>> \in last.reqs[1].headers

\* C5: a ValidateSession that returns false has left the session file with
\* the content it had before the call.
C5_FalseLeavesFileUntouched ==
    [][(last'.op = "ValidateSession" /\ ~last'.ok)
       => Content(file') = Content(file)]_vars

\* C9: ValidateSession returns true exactly if the session read, the ticket
\* POST and UpdateSessionField("response", body) all returned no error; a
\* step is made only if the steps before it succeeded.
C9_TrueIffAllSteps ==
    last.op = "ValidateSession" =>
        /\ last.ok <=> (/\ last.readErr = ErrNil /\ last.postErr = ErrNil
                        /\ last.updErr = ErrNil)
        /\ last.readErr # ErrNil => (last.postErr = Skipped /\ last.reqs = << >>)
        /\ last.postErr # ErrNil => last.updErr = Skipped
        /\ last.readErr # Skipped
        /\ last.postErr # Skipped => Len(last.reqs) = 1

\* ValidateSession has returned false because the update failed
C9_Witness ==
    /\ last.op = "ValidateSession" /\ ~last.ok
    /\ last.readErr = ErrNil /\ last.postErr = ErrNil
    /\ last.updErr \notin {ErrNil, Skipped}

\* C10: a ValidateSession on a stored record leaves a stored record with the
\* same server, port and scheme, and when it returns true the stored
\* authentication payload is the one decoded from the response body.
C10_RefreshReplacesOnlyPayload ==
    [][(HoldsRecord(file) /\ last'.op = "ValidateSession")
       => /\ HoldsRecord(file')
          /\ Stored(file').server = Stored(file).server
          /\ Stored(file').port = Stored(file).port
          /\ Stored(file').httpScheme = Stored(file).httpScheme
          /\ last'.ok =>
                LET d == UnmarshalResponse(last'.body).v.Data
                IN  /\ Stored(file').username = d.Username
                    /\ Stored(file').ticket = d.Ticket
                    /\ Stored(file').CSRFPreventionToken =
                           d.CSRFPreventionToken]_vars

\* the body is {"data":{"username":u,"ticket":t,"CSRFPreventionToken":c}}
IsFullPayload(body) ==
    /\ body.t = "object" /\ DOMAIN body.o = {"data"}
    /\ body.o.data.t = "object"
    /\ DOMAIN body.o.data.o = {"username", "ticket", "CSRFPreventionToken"}
    /\ \A k \in DOMAIN body.o.data.o : body.o.data.o[k].t = "string"

\* C11: a LoginToProxmox whose ticket POST answers a full payload and whose
\* write does not fail returns no error, has written once, and the record
\* stored afterwards has server, port and scheme of the call and username,
\* ticket and token of the response, whatever was stored before.
C11_LoginWritesNewRecord ==
    [][(/\ last'.op = "LoginToProxmox" /\ last'.postErr = ErrNil
        /\ IsFullPayload(last'.body)
        /\ last'.writeErr \in {ErrNil, Skipped})
       => /\ last'.err = ErrNil /\ last'.writes = 1
          /\ HoldsRecord(file')
          /\ Stored(file') =
                [server |-> last'.arg.Server, port |-> last'.arg.Port,
                 httpScheme |-> last'.arg.HttpScheme,
                 username |-> last'.body.o.data.o.username.s,
                 ticket |-> last'.body.o.data.o.ticket.s,
                 CSRFPreventionToken |->
                     last'.body.o.data.o.CSRFPreventionToken.s]]_vars

\* a login to the second host has stored its record with the second ticket
C11_Witness ==
    /\ last.op = "LoginToProxmox" /\ last.err = ErrNil /\ last.writes = 1
    /\ IsFullPayload(last.body) /\ Active(file)
    /\ Stored(file).server = Host(2) /\ Stored(file).port = DefaultPort
    /\ Stored(file).ticket = TicketOf(2)

\* C12: a LoginToProxmox whose POST fails or whose body is not JSON returns
\* an error, never calls WriteSessionFile and leaves the session file as it
\* was; a LoginToProxmox whose write fails returns the error of the write.
C12_LoginFailureNoWrite ==
    [][last'.op = "LoginToProxmox"
       => /\ (last'.postErr # ErrNil \/ ~IsJSON(last'.body))
                => (last'.err # ErrNil /\ last'.writes = 0 /\ file' = file)
          /\ last'.writeErr \notin {ErrNil, Skipped}
                => last'.err = last'.writeErr]_vars

\* a login has failed on a body that is not JSON, over a stored session
C12_Witness ==
    /\ last.op = "LoginToProxmox" /\ last.err = ErrSyntax
    /\ last.postErr = ErrNil /\ ~IsJSON(last.body)
    /\ last.writes = 0 /\ Active(file)

\* errors of the file system under the store
FsErrors == {ErrMkdir, ErrCreate, ErrOpen, ErrWrite}

\* the fields of a stored record other than those in ks
Others(f, ks) == [k \in RequiredFields \ ks |-> Stored(f)[k]]

\* the one field of the record that UpdateSessionField(field, _) is to change
Target(field) ==
    CASE field = "server" -> {"server"}
      [] field = "port" -> {"port"}
      [] field = "httpScheme" -> {"httpScheme"}

C15_FirstRunRead ==
    [][(last'.op = "ReadSessionFile" /\ ~Active(file))
       => /\ last'.err # ErrNil
          /\ ~Active(file')
          /\ (file.k # "file" /\ last'.err \notin FsErrors)
                => (file' = FileOf(JEmpty) /\ last'.err = ErrEOF)
          /\ file = FileOf(JEmpty)
                => (file' = file /\ last'.err \in {ErrEOF, ErrOpen})]_vars

\* a read has left the placeholder and returned the error of the empty file
C15_Witness ==
    /\ last.op = "ReadSessionFile" /\ last.err = ErrEOF
    /\ file = FileOf(JEmpty)

ZoneOps == {"CreateZone", "UpdateZone", "DeleteZone"}

\* the request carries the cookie PVEAuthCookie with the escaped ticket
CarriesTicket(q, ticket) ==
    \E c \in DOMAIN q.cookies :
        /\ q.cookies[c].Name = "PVEAuthCookie"
        /\ q.cookies[c].Value = QueryEscape(ticket)

\* the request carries the header CSRFPreventionToken with the token
CarriesToken(q, token) == <<"CSRFPreventionToken", token>> \in q.headers

\* C16: every request of a state-changing operation (the seven VM actions,
\* DeleteVM, and CreateZone, UpdateZone, DeleteZone) carries the cookie
\* PVEAuthCookie with the URL-escaped ticket and the header
\* CSRFPreventionToken with the token of the stored session.
C16_StateChangingCarriesBoth ==
    [][last'.op \in VMActionOps \cup {"DeleteVM"} \cup ZoneOps
       => \A i \in DOMAIN last'.reqs :
            /\ Active(file)
            /\ CarriesTicket(last'.reqs[i], Stored(file).ticket)
            /\ CarriesToken(last'.reqs[i],
                            Stored(file).CSRFPreventionToken)]_vars

\* scheme://server:port/api2/json of the stored session
StoredBase(f) ==
    Stored(f).httpScheme \o <<"://">> \o Stored(f).server
        \o <<":", Itoa(Stored(f).port)>> \o <<"/api2/json">>

HasPrefix(str, pre) ==
    Len(str) >= Len(pre) /\ SubSeq(str, 1, Len(pre)) = pre

\* C17: every read operation issues at most one request, and exactly one
\* when the stored session is well formed and can be opened; the request is
\* a GET of scheme://server:port/api2/json/<path> of the stored session,
\* with no body, exactly one cookie, PVEAuthCookie holding the URL-escaped
\* stored ticket, and no header.
C17_ReadsAreCookieOnlyGets ==
    [][last'.op \in ReadOps
       => /\ Len(last'.reqs) <= 1
          /\ (Active(file) /\ last'.err # ErrOpen) => Len(last'.reqs) = 1
          /\ \A i \in DOMAIN last'.reqs :
                LET q == last'.reqs[i]
                IN  /\ Active(file)
                    /\ q.method = "GET" /\ q.payload = EmptyStr
                    /\ HasPrefix(q.uri, StoredBase(file))
                    /\ Len(q.uri) > Len(StoredBase(file))
                    /\ Len(q.cookies) = 1
                    /\ q.cookies[1].Name = "PVEAuthCookie"
                    /\ q.cookies[1].Value = QueryEscape(Stored(file).ticket)
                    /\ \A h \in q.headers : h[1] # "CSRFPreventionToken"
                    /\ q.headers = {}]_vars

\* the status of a VM was asked of the second host with the escaped ticket
C17_Witness ==
    /\ last.op = "GetVMStatus" /\ Len(last.reqs) = 1 /\ Active(file)
    /\ Stored(file).server = Host(2)
    /\ last.reqs[1].method = "GET"
    /\ last.reqs[1].cookies[1].Value = QueryEscape(Stored(file).ticket)
    /\ QueryEscape(Stored(file).ticket) # Stored(file).ticket

\* the errors ReadSessionFile can return on f
StoreErrors(f) ==
    {ReadSessionFile(f, fault).err : fault \in ReadFaultsAt(f)} \ {ErrNil}

\* the nil or empty result of an operation: a nil list or pointer for the
\* read operations, the empty task identifier for the others
EmptyResult(op) == IF op \in ReadOps THEN ResNil ELSE ResString(EmptyStr)

\* C18: an accessor whose session read fails (it returns before any
\* request) returns the very error ReadSessionFile returned, and a nil or
\* empty result; with no well-formed session stored this is what every
\* accessor does.
C18_SessionErrorUnchanged ==
    [][last'.op \in AccessorOps
       => /\ ~Active(file) => last'.reqs = << >>
          /\ last'.reqs = << >>
                => /\ last'.err \in StoreErrors(file)
                   /\ last'.result = EmptyResult(last'.op)]_vars

\* a list was refused with the error of the stored record's validation
C18_Witness ==
    /\ last.op = "ListResources" /\ last.reqs = << >>
    /\ HoldsRecord(file) /\ last.err = ErrMissingUsername
    /\ last.result = ResNil

\* C19: an accessor whose request is answered with a body that is not JSON
\* returns an error and a nil or empty result; and no accessor returns
\* anything but the nil or empty result next to an error.
C19_InvalidJSONGivesErrorAndNil ==
    [][last'.op \in AccessorOps
       => /\ (last'.postErr = ErrNil /\ ~IsJSON(last'.body))
                => (last'.err # ErrNil /\ last'.result = EmptyResult(last'.op))
          /\ last'.err # ErrNil => last'.result = EmptyResult(last'.op)]_vars

\* the status of a node was asked and the answer was not JSON
C19_Witness ==
    /\ last.op = "GetNodeStatus" /\ Len(last.reqs) = 1
    /\ last.postErr = ErrNil /\ last.body = JInvalid
    /\ last.err = ErrSyntax /\ last.result = ResNil

\* the body is an object with a data member that is not null
HasEnvelope(body) ==
    body.t = "object" /\ "data" \in DOMAIN body.o /\ body.o.data.t # "null"

\* C20: an accessor, a VM action or a login whose request is answered with
\* JSON that is not an envelope {"data": payload} (no data member, data
\* null, not an object) returns a decode error, never a nil error.
C20_EnvelopeMismatchIsError ==
    [][(/\ last'.op \in AccessorOps \cup {"LoginToProxmox"}
        /\ last'.postErr = ErrNil /\ IsJSON(last'.body)
        /\ ~HasEnvelope(last'.body))
       => last'.err = ErrType]_vars

\* the body is {"data": s} with s a string
IsTaskBody(body) ==
    body.t = "object" /\ "data" \in DOMAIN body.o /\ body.o.data.t = "string"

\* C21: a VM action (start, stop, shutdown, reboot, reset, suspend, resume)
\* or a delete whose request is answered with {"data": s}, s a string,
\* returns no error and exactly s as the task identifier, and has issued
\* that one request and no other.
C21_TaskIdReturnedUnmodified ==
    [][(/\ last'.op \in VMActionOps \cup {"DeleteVM"}
        /\ last'.postErr = ErrNil /\ IsTaskBody(last'.body))
       => /\ last'.err = ErrNil
          /\ last'.result = ResString(last'.body.o.data.s)
          /\ Len(last'.reqs) = 1]_vars

\* a reboot has returned the task identifier the server answered
C21_Witness ==
    /\ last.op = "RebootVM" /\ last.err = ErrNil /\ Len(last.reqs) = 1
    /\ last.body = JObj([data |-> JStr(UPID)])
    /\ last.result = ResString(UPID)

\* C23: every accessor call reads the session once and issues at most one
\* request, which is made from the record that was read; a call whose
\* request fails in the transport, or is answered with a body that cannot be
\* decoded, returns that error with one request issued and one session read.
C23_OneReadOneRequestNoRetry ==
    [][last'.op \in AccessorOps
       => /\ last'.reads = 1 /\ Len(last'.reqs) <= 1
          /\ last'.reqs # << >>
                => (Active(file) /\ HasPrefix(last'.reqs[1].uri, StoredBase(file)))
          /\ last'.postErr \notin {ErrNil, Skipped}
                => (last'.err = last'.postErr /\ Len(last'.reqs) = 1)
          /\ (last'.postErr = ErrNil /\ last'.err # ErrNil)
                => (last'.err = DecodeErr(last'.body) /\ Len(last'.reqs) = 1)]_vars

\* a start has failed in the transport after its one request
C23_Witness ==
    /\ last.op = "StartVM" /\ last.err = ErrTransport
    /\ last.reads = 1 /\ Len(last.reqs) = 1 /\ Active(file)

\* the action each VM action operation is to ask for
ActionOf ==
    [op \in VMActionOps |->
        CASE op = "StartVM" -> "start"
          [] op = "StopVM" -> "stop"
          [] op = "ShutdownVM" -> "shutdown"
          [] op = "RebootVM" -> "reboot"
          [] op = "ResetVM" -> "reset"
          [] op = "SuspendVM" -> "suspend"
          [] op = "ResumeVM" -> "resume"]

\* .../nodes/<node>/qemu/<vmid> on the stored server
VMPath(f, nodeName, vmid) ==
    StoredBase(f) \o <<"/nodes/">> \o nodeName \o <<"/qemu/", Itoa(vmid)>>

\* C25: on a well-formed stored session that can be read, each of StartVM,
\* StopVM, ShutdownVM, RebootVM, ResetVM, SuspendVM and ResumeVM issues
\* exactly one request, a POST of .../nodes/<node>/qemu/<vmid>/status/<action>
\* with its own action, and DeleteVM exactly one request, a DELETE of
\* .../nodes/<node>/qemu/<vmid>; none of them ever issues another request.
C25_OwnEndpoint ==
    [][last'.op \in VMActionOps \cup {"DeleteVM"}
       => /\ (Active(file) /\ last'.err # ErrOpen) => Len(last'.reqs) = 1
          /\ \A i \in DOMAIN last'.reqs :
                LET q == last'.reqs[i]
                IN  /\ Active(file)
                    /\ last'.op \in VMActionOps
                          => /\ q.method = "POST"
                             /\ q.uri = VMPath(file, NodeName, VMID)
                                            \o <<"/status/", ActionOf[last'.op]>>
                    /\ last'.op = "DeleteVM"
                          => /\ q.method = "DELETE"
                             /\ q.uri = VMPath(file, NodeName, VMID)]_vars

\* a stop was asked of the second host
C25_Witness ==
    /\ last.op = "StopVM" /\ Len(last.reqs) = 1 /\ Active(file)
    /\ Stored(file).server = Host(2)
    /\ last.reqs[1].method = "POST"
    /\ last.reqs[1].uri = VMPath(file, NodeName, VMID) \o <<"/status/", "stop">>

\* the members of a full payload, all three present and not empty
PayloadOf(body) ==
    [username |-> body.o.data.o.username.s, ticket |-> body.o.data.o.ticket.s,
     CSRFPreventionToken |-> body.o.data.o.CSRFPreventionToken.s]

CarriesPayload(body) ==
    /\ IsFullPayload(body)
    /\ \A k \in DOMAIN PayloadOf(body) : PayloadOf(body)[k] # EmptyStr

\* C26: token freshness.  The accessor call that follows a ValidateSession
\* which returned true on a response carrying ticket t' and token c' issues
\* its request (unless the file cannot be opened) with t', URL-escaped, as
\* the value of its only PVEAuthCookie and, for the VM actions and delete,
\* c' as its only CSRFPreventionToken header; a ticket or token that the
\* refresh replaced is not sent.
C26_TokenFreshness ==
    [][(/\ last.op = "ValidateSession" /\ last.ok /\ CarriesPayload(last.body)
        /\ last'.op \in AccessorOps)
       => /\ last'.err # ErrOpen => Len(last'.reqs) = 1
          /\ \A i \in DOMAIN last'.reqs :
                LET q == last'.reqs[i]
                    fresh == PayloadOf(last.body)
                    sent == last.reqs[1]
                IN  /\ CarriesTicket(q, fresh.ticket)
                    /\ \A c \in DOMAIN q.cookies :
                          q.cookies[c].Name = "PVEAuthCookie"
                              => q.cookies[c].Value = QueryEscape(fresh.ticket)
                    /\ last'.op \in VMActionOps \cup {"DeleteVM"}
                          => /\ CarriesToken(q, fresh.CSRFPreventionToken)
                             /\ \A h \in q.headers :
                                   h[1] = "CSRFPreventionToken"
                                       => h[2] = fresh.CSRFPreventionToken
                    /\ sent.cookies[1].Value # QueryEscape(fresh.ticket)
                          => \A c \in DOMAIN q.cookies :
                                q.cookies[c].Value # sent.cookies[1].Value
                    /\ <<"CSRFPreventionToken", fresh.CSRFPreventionToken>>
                           \notin sent.headers
                          => \A h \in q.headers :
                                h[1] = "CSRFPreventionToken"
                                    => h \notin sent.headers]_vars

\* a VM action has sent the ticket and the token that only a refresh gives
C26_Witness ==
    /\ last.op = "ShutdownVM" /\ Len(last.reqs) = 1
    /\ CarriesTicket(last.reqs[1], TicketOf(NumTickets + 1))
    /\ CarriesToken(last.reqs[1], CSRFOf(NumTickets + 1))

\* the file as a failed read leaves it: as it was, or, where there was no
\* file, with the directory or the empty placeholder created
AsAfterRead(f, g) ==
    \/ g = f
    \/ f.k # "file" /\ g \in {NoFile, FileOf(JEmpty)}

\* C28: refresh and field update cannot repair a session that is not well
\* formed.  While no well-formed record is stored (no file, an empty file, a
\* record lacking a required field), ValidateSession returns false without
\* a request and UpdateSessionField returns an error, for every field and
\* value; neither writes a record (the file is left as a failed read
\* leaves it); and a well-formed record appears only by a login that
\* returns no error, through its WriteSessionFile.
C28_NoRepairByRefreshOrUpdate ==
    [][~Active(file)
       => /\ last'.op = "ValidateSession"
                => (~last'.ok /\ last'.reqs = << >> /\ AsAfterRead(file, file'))
          /\ last'.op = "UpdateSessionField"
                => (last'.err # ErrNil /\ AsAfterRead(file, file'))
          /\ Active(file')
                => /\ last'.op = "LoginToProxmox" /\ last'.err = ErrNil
                   /\ last'.writes = 1]_vars

\* a full payload was offered to a stored record that lacks its payload,
\* and refused
C28_Witness ==
    /\ last.op = "UpdateSessionField" /\ last.field = "response"
    /\ last.value = TextValue(Payload(UserName, TicketOf(2), CSRFOf(2)))
    /\ last.err = ErrMissingUsername
    /\ HoldsRecord(file)
    /\ MissingFields(file) = {"username", "ticket", "CSRFPreventionToken"}

\* the order in which the fields are to be tested
FieldOrder ==
    <<"server", "port", "httpScheme", "username", "ticket", "CSRFPreventionToken">>

\* the first field of ks in that order
FirstOf(ks) ==
    FieldOrder[CHOOSE i \in DOMAIN FieldOrder :
                  /\ FieldOrder[i] \in ks
                  /\ \A j \in 1..(i - 1) : FieldOrder[j] \notin ks]

\* C29: a ReadSessionFile of a stored record that lacks one or several
\* required fields returns one error, the error of the first missing field
\* in the order server, port, scheme, username, ticket, anti-forgery token,
\* which names no other field; and every ReadSessionFile that returns an
\* error returns the zero-value record.
C29_FirstMissingFieldAndZeroRecord ==
    last.op = "ReadSessionFile" =>
        /\ last.err # ErrNil => last.data = ZeroSessionData
        /\ (HoldsRecord(file) /\ last.err # ErrOpen /\ MissingFields(file) # {})
              => LET first == FirstOf(MissingFields(file))
                 IN  /\ last.err = MissingMessage[first]
                     /\ Names(last.err, first)
                     /\ \A k \in RequiredFields \ {first} : ~Names(last.err, k)

\* a read of a record lacking port and ticket has reported the port
C29_Witness ==
    /\ last.op = "ReadSessionFile" /\ HoldsRecord(file)
    /\ MissingFields(file) = {"port", "ticket"}
    /\ last.err = ErrMissingPort /\ last.data = ZeroSessionData

\* C30: the accessors do not write the session.  An accessor call (a read,
\* a VM action, a VM delete) on a well-formed stored session leaves the file
\* as it is, whether it succeeds or fails; on any stored state it leaves the
\* file as a failed read leaves it; so a stored record changes only in a
\* step of LoginToProxmox or ValidateSession (which calls
\* UpdateSessionField).
C30_AccessorsReadOnly ==
    [][/\ (Active(file) /\ last'.op \in AccessorOps)
            => (file' = file /\ Stored(file') = Stored(file))
       /\ last'.op \in AccessorOps => AsAfterRead(file, file')
       /\ (HoldsRecord(file') /\ file' # file)
            => last'.op \in {"LoginToProxmox", "ValidateSession"}]_vars

\* a delete has failed in the transport on the stored session of a login
C30_Witness ==
    /\ last.op = "DeleteVM" /\ last.err = ErrTransport /\ Len(last.reqs) = 1
    /\ Active(file) /\ Stored(file).server = Host(2)
    /\ Stored(file).ticket = TicketOf(1)

(***************************************************************************)
(* Claims about the transport, checked under SpecTransport.                *)
(***************************************************************************)
TransportOps == {"Get", "Post", "Put", "Delete"}

MethodOf ==
    [op \in TransportOps |->
        CASE op = "Get" -> "GET" [] op = "Post" -> "POST"
          [] op = "Put" -> "PUT" [] op = "Delete" -> "DELETE"]

\* the header h of the call is on the request q (names compare without
\* regard to case), the cookie c of the call is on it
HeaderSent(q, h) == <<CanonicalKey(h[1]), h[2]>> \in q.header

CookieSent(q, c) == \E j \in DOMAIN q.cookie : q.cookie[j] = c

\* what C24 says of method, body and returned text
MethodBodyAndText ==
    /\ last.sent[1].method = MethodOf[last.op]
    /\ last.sent[1].url = last.reqs[1].uri
    /\ last.op \in {"Post", "Put"} => last.sent[1].body = last.reqs[1].payload
    /\ (last.err = ErrNil /\ last.op \in {"Post", "Put", "Delete"})
          => last.body = last.answer

\* C24 as stated: for every Transport call (Get, Post, Put, Delete) that
\* sends a request, every header of the supplied map and every cookie of
\* the supplied list is on the request with the supplied value, the request
\* has the method of the operation, Post and Put send the payload as the
\* body, and on success Post, Put and Delete return the whole response body.
C24_EveryHeaderAndCookieSent ==
    (last.op \in TransportOps /\ last.sent # << >>) =>
        /\ \A h \in last.reqs[1].headers : HeaderSent(last.sent[1], h)
        /\ \A i \in DOMAIN last.reqs[1].cookies :
              CookieSent(last.sent[1], last.reqs[1].cookies[i])
        /\ MethodBodyAndText

\* the name of h is the name of no other header of the map, up to case
OnlyOfItsName(headers, h) ==
    \A g \in headers : CanonicalKey(g[1]) = CanonicalKey(h[1]) => g = h

\* the value of the cookie holds only bytes that are valid in a cookie value
CookieSafe(c) == \A k \in DOMAIN c.Value : ValidCookieValueByte(c.Value[k])

\* C24 amended: the same, for every header whose name no other header of
\* the map shares up to case and every cookie whose value holds only bytes
\* valid in a cookie value; of headers that share a name one is sent, and
\* a cookie value is sent without its invalid bytes.
C24_DistinctHeadersAndSafeCookiesSent ==
    (last.op \in TransportOps /\ last.sent # << >>) =>
        /\ \A h \in last.reqs[1].headers :
              /\ OnlyOfItsName(last.reqs[1].headers, h)
                    => HeaderSent(last.sent[1], h)
              /\ \E g \in last.reqs[1].headers :
                    /\ CanonicalKey(g[1]) = CanonicalKey(h[1])
                    /\ HeaderSent(last.sent[1], g)
        /\ \A i \in DOMAIN last.reqs[1].cookies :
              LET c == last.reqs[1].cookies[i]
              IN  /\ CookieSafe(c) => CookieSent(last.sent[1], c)
                  /\ CookieSent(last.sent[1],
                                [c EXCEPT !.Value =
                                    SelectSeq(c.Value, ValidCookieValueByte)])
        /\ MethodBodyAndText

\* a Delete has sent the token header and the ticket cookie and returned
\* the body the server answered
C24_Witness ==
    /\ last.op = "Delete" /\ last.err = ErrNil /\ Len(last.sent) = 1
    /\ last.sent[1].method = "DELETE"
    /\ <<"Csrfpreventiontoken", CSRFOf(1)>> \in last.sent[1].header
    /\ last.sent[1].cookie =
           <<[Name |-> "PVEAuthCookie", Value |-> QueryEscape(TicketOf(1))]>>
    /\ last.body = JObj([data |-> JStr(UPID)]) /\ last.answer = last.body

\* C22: when two invocations run operations that write the session at the
\* same time (the file system and the server not failing), an invocation
\* that began with a well-formed session stored returns no error, and the
\* record stored when an invocation's write ends is exactly the record
\* that invocation wrote, whole.
C22_LastWriterWins ==
    [][\A p \in Procs :
          /\ (inv[p].began /\ inv[p].pc # "idle" /\ inv'[p].pc = "idle")
                 => inv'[p].err = ErrNil
          /\ (inv[p].pc = "encode" /\ inv'[p].pc = "idle")
                 => file' = FileOf(EncodeSessionData(inv[p].rec))]_vars

\* C27: whatever the interleaving of logins and ValidateSession calls of
\* two processes, a well-formed record that a login or a ValidateSession
\* stores holds the server, port and scheme its own request was sent to.
C27_PayloadPairedWithItsServer ==
    [][\A p \in Procs :
          (inv[p].pc = "encode" /\ inv'[p].pc = "idle"
              /\ Complete(inv[p].rec))
             => HasPrefix(inv[p].req[1].uri,
                          BaseURI(inv[p].rec.HttpScheme, inv[p].rec.Server,
                                  inv[p].rec.Port))]_vars

====
